---- MODULE Spec2Model ----
(***************************************************************************)
(* Itinerary segmentation and normalisation of the AGENCY ETL scripts.     *)
(*                                                                         *)
(* The model follows one booking row through a script: the cleaned_source  *)
(* view (flight-number rewrite, TRY_CAST of the dates, the year-window     *)
(* WHERE clause) and then process_batch (leg validation, sort, dedup,      *)
(* grouping into routes, projection to a fixed-width record).              *)
(*                                                                         *)
(* Conventions                                                             *)
(*   - a string is a sequence of one-character strings; SQL NULL / Python  *)
(*     None for a string is NullStr;                                       *)
(*   - a timestamp is a one-element sequence <<t>>, t counted in ticks of  *)
(*     1/TicksPerDay day from VALID_YEAR_MIN-01-01 00:00; NaT / NULL is    *)
(*     the empty sequence;                                                 *)
(*   - a leg is the code's tuple (fn, dt, depAp, arrAp) as a record.       *)
(***************************************************************************)
EXTENDS Integers, Sequences, FiniteSets, TLC

VARIABLES
    script,   \* which script runs: "bluestar", "tripjack", "tbo3_python_copy", "test_sql_main",
              \* "tbo3_claude" or "tripjack_airports"
    src,      \* the row of the source table (test_sql_main: the rows of the batch;
              \* tripjack_airports: the target table as the run found it)
    view,     \* the rows of cleaned_source (none before the view exists);
              \* tripjack_airports: the target table as the open transaction sees it
    row_valid,    \* process_batch: the row's legs after validation, in column order
    row_flights,  \* process_batch: the row's legs after validation, sort and dedup
    row_routes,   \* process_batch: the row's routes
    out,      \* process_batch: out_rows
    target,   \* the rows of the target table
    pc,       \* "raw", "viewed", "done"; tripjack_airports: "raw", "begun", "inserted",
              \* "deleted", "done", "rolled_back"; bluestar main: "loop", "done"
    again,    \* the flight number fed back for a second pass, if any
    target_once,  \* <<the target table as the first process_batch left it>>, once the batch is run again
    df_out,   \* process_batch: the records handed to the INSERT
    loop      \* bluestar main: total, BATCH_SIZE, offset, batch and the offsets passed to
              \* process_batch so far

vars == <<script, src, view, row_valid, row_flights, row_routes, out, target, pc, again, target_once, df_out, loop>>

\* main before the count of cleaned_source is taken
NoLoop == [total |-> 0, BATCH_SIZE |-> 1, offset |-> 0, batch |-> 0, calls |-> <<>>]

----------------------------------------------------------------------------
(* Bounds of the model.                                                    *)

\* ticks per calendar day (2: a tick is 12 hours)
TicksPerDay == 2
\* latest timestamp of a leg, in ticks after VALID_YEAR_MIN-01-01 00:00
MaxTick == 3
\* ticks modelled before VALID_YEAR_MIN-01-01 00:00 (dates outside the window)
PreTicks == 1
\* populated leg columns per input row
MaxPresent == 3
\* longest raw flight-number string enumerated exhaustively
MaxLen == 5

----------------------------------------------------------------------------
(* Characters and strings.                                                 *)

UpperLetters == {"A","B","C","D","E","F","G","H","I","J","K","L","M",
                 "N","O","P","Q","R","S","T","U","V","W","X","Y","Z"}
LowerLetters == {"a","k","t"}
DigitChars == {"0","1","2","3","4","5","6","7","8","9"}
SpaceChar == " "

NullStr == <<"NULL">>
NaT == <<>>
NoneAp == "None"

IsNullStr(s) == s = NullStr

\* upper() of one character (the lower-case letters the model draws from)
UpperChar(c) ==
    CASE c = "a" -> "A"
      [] c = "k" -> "K"
      [] c = "t" -> "T"
      [] OTHER -> c

\* SQL upper(s) / Python s.upper()
StrUpper(s) == [i \in 1..Len(s) |-> UpperChar(s[i])]

RECURSIVE LStrip(_)
LStrip(s) == IF s # <<>> /\ Head(s) = SpaceChar THEN LStrip(Tail(s)) ELSE s

RECURSIVE RStrip(_)
RStrip(s) ==
    IF s # <<>> /\ s[Len(s)] = SpaceChar THEN RStrip(SubSeq(s, 1, Len(s) - 1)) ELSE s

\* SQL trim(s) / Python s.strip()
StrTrim(s) == LStrip(RStrip(s))

\* SQL replace(s, ' ', '')
RECURSIVE RemoveSpaces(_)
RemoveSpaces(s) ==
    IF s = <<>> THEN <<>>
    ELSE IF Head(s) = SpaceChar THEN RemoveSpaces(Tail(s))
         ELSE <<Head(s)>> \o RemoveSpaces(Tail(s))

\* Python s.rstrip("0")
RECURSIVE RStripZeros(_)
RStripZeros(s) ==
    IF s # <<>> /\ s[Len(s)] = "0" THEN RStripZeros(SubSeq(s, 1, Len(s) - 1)) ELSE s

\* Python s.isdigit(): non-empty and every character a digit
IsDigitStr(s) == s # <<>> /\ \A i \in 1..Len(s) : s[i] \in DigitChars

\* Python s.isalpha(): non-empty and every character a letter
IsAlphaStr(s) ==
    s # <<>> /\ \A i \in 1..Len(s) : s[i] \in UpperLetters \cup LowerLetters

AllUpper(s) == \A i \in 1..Len(s) : s[i] \in UpperLetters

AllDigits(s) == \A i \in 1..Len(s) : s[i] \in DigitChars

AllAlnum(s) == \A i \in 1..Len(s) : s[i] \in UpperLetters \cup DigitChars

\* number of leading "0" characters of s
RECURSIVE LeadingZeros(_)
LeadingZeros(s) == IF s # <<>> /\ Head(s) = "0" THEN 1 + LeadingZeros(Tail(s)) ELSE 0

\* s matches 0+([1-9][0-9]*) : at least one zero, then a digit run not starting with 0
ZerosThenNumber(s) ==
    LET z == LeadingZeros(s)
    IN  /\ z >= 1
        /\ z < Len(s)
        /\ AllDigits(SubSeq(s, z + 1, Len(s)))

----------------------------------------------------------------------------
(* Program constants.                                                      *)

MAX_FLTNO_DIGITS_BLUESTAR == 10
MAX_FLTNO_DIGITS_TRIPJACK == 8
ROUTE_MAX_DAYS == 1
\* leg columns FN1..FN4 / FN1..FN5 of a row
BLUESTAR_LEGS == 4
TRIPJACK_LEGS == 5
\* route[:4] / route[:6] in the projection loops
BLUESTAR_ROUTE_CUT == 4
TRIPJACK_ROUTE_CUT == 6
\* days from VALID_YEAR_MIN-01-01 (2010-01-01) to VALID_YEAR_MAX-12-31 (2030-12-31)
VALID_WINDOW_DAYS == 7669

\* timedelta(days=n) in ticks
TimedeltaDays(n) == n * TicksPerDay

\* '{VALID_YEAR_MIN}-01-01' and '{VALID_YEAR_MAX}-12-31' cast to TIMESTAMP (midnight)
WindowStart == 0
WindowEnd == VALID_WINDOW_DAYS * TicksPerDay

Abs(x) == IF x < 0 THEN 0 - x ELSE x

Min(a, b) == IF a < b THEN a ELSE b

----------------------------------------------------------------------------
(* cleaned_source: the flight-number rewrite of the view.                  *)

\* ([A-Z]{2,3}) : an airline code of 2 or 3 capital letters
IsLetterCode(c) == Len(c) \in {2, 3} /\ AllUpper(c)

\* ([A-Z]{2,3}|\d[A-Z]) : the same, or one digit and one capital letter
IsLetterOrDigitLetterCode(c) ==
    \/ IsLetterCode(c)
    \/ Len(c) = 2 /\ c[1] \in DigitChars /\ c[2] \in UpperLetters

\* the lengths k for which s = code 0+ [1-9][0-9]* with a code of k characters
BluestarCodeLens(s) ==
    {k \in {2, 3} : /\ k < Len(s)
                    /\ IsLetterCode(SubSeq(s, 1, k))
                    /\ ZerosThenNumber(SubSeq(s, k + 1, Len(s)))}

TripjackCodeLens(s) ==
    {k \in {2, 3} : /\ k < Len(s)
                    /\ IsLetterOrDigitLetterCode(SubSeq(s, 1, k))
                    /\ ZerosThenNumber(SubSeq(s, k + 1, Len(s)))}

\* variant of RewriteMatch: the zeros are kept
RewriteMatch_KeepZeros(s, k) == s

\* regexp_replace(s, regex, '\1\2') for a match with a code of k characters
RewriteMatch(s, k) ==
    LET rest == SubSeq(s, k + 1, Len(s))
    IN  SubSeq(s, 1, k) \o SubSeq(rest, LeadingZeros(rest) + 1, Len(rest))

\* replace(trim(upper(x)), ' ', '')
SqlClean(x) == RemoveSpaces(StrTrim(StrUpper(x)))

\* CASE WHEN regexp_matches(c, re) THEN regexp_replace(c, re, '\1\2') ELSE c END
BluestarViewFn(raw) ==
    IF IsNullStr(raw) THEN NullStr
    ELSE LET c == SqlClean(raw)
             ks == BluestarCodeLens(c)
         IN  IF ks # {} THEN RewriteMatch(c, CHOOSE k \in ks : TRUE) ELSE c

\* NULLIF(regexp_replace(c, FLTNO_REGEX, '\1\2'), '')
TripjackViewFn(raw) ==
    IF IsNullStr(raw) THEN NullStr
    ELSE LET c == SqlClean(raw)
             ks == TripjackCodeLens(c)
             r == IF ks # {} THEN RewriteMatch(c, CHOOSE k \in ks : TRUE) ELSE c
         IN  IF r = <<>> THEN NullStr ELSE r

\* TRY_CAST(x AS TIMESTAMP): a timestamp stays, anything else becomes NULL
TryCastTimestamp(x) == IF Len(x) = 1 THEN x ELSE NaT

\* dt BETWEEN '{VALID_YEAR_MIN}-01-01' AND '{VALID_YEAR_MAX}-12-31'
InYearWindow(dt) == dt # NaT /\ WindowStart <= dt[1] /\ dt[1] <= WindowEnd

\* the WHERE clause: some leg date of the row lies in the window
ViewKeepsRow(dts) == \E i \in 1..Len(dts) : InYearWindow(dts[i])

----------------------------------------------------------------------------
(* process_batch: validation of one candidate leg.                         *)

\* re.fullmatch(r"[A-Z0-9]{2,3}\d+", fn)
ShapeOk(fn) ==
    \E k \in {2, 3} : /\ k < Len(fn)
                      /\ AllAlnum(SubSeq(fn, 1, k))
                      /\ AllDigits(SubSeq(fn, k + 1, Len(fn)))

\* variant of BluestarCheckLeg: a placeholder flight number drops the whole row
BluestarCheckLeg_PlaceholderDropsRow(fn, dt) ==
    IF IsNullStr(fn) \/ dt = NaT THEN [verdict |-> "skip", fn |-> NullStr]
    ELSE IF RStripZeros(StrTrim(fn)) = <<>> \/ IsAlphaStr(RStripZeros(StrTrim(fn)))
         THEN [verdict |-> "droprow", fn |-> NullStr]
    ELSE IF ~ShapeOk(StrUpper(StrTrim(fn))) THEN [verdict |-> "skip", fn |-> NullStr]
    ELSE [verdict |-> "ok", fn |-> StrUpper(StrTrim(fn))]

\* bluestar: the checks of the leg loop on (fn, dt); "skip" is continue, "droprow" is
\* flights = [] with break, "ok" appends the leg with the flight number fn
BluestarCheckLeg(fn, dt) ==
    IF IsNullStr(fn) \/ dt = NaT THEN [verdict |-> "skip", fn |-> NullStr]
    ELSE LET f1 == StrTrim(fn)
             f2 == StrUpper(StrTrim(f1))
         IN  IF f1 = <<>> THEN [verdict |-> "skip", fn |-> NullStr]
             ELSE IF IsDigitStr(f1) /\ Len(f1) > MAX_FLTNO_DIGITS_BLUESTAR
                  THEN [verdict |-> "droprow", fn |-> NullStr]
             ELSE IF RStripZeros(f1) = <<>> \/ IsAlphaStr(RStripZeros(f1))
                  THEN [verdict |-> "skip", fn |-> NullStr]
             ELSE IF ~ShapeOk(f2) THEN [verdict |-> "skip", fn |-> NullStr]
             ELSE [verdict |-> "ok", fn |-> f2]

\* tripjack: is_valid_flightno(fn, dt)
is_valid_flightno(fn, dt) ==
    IF IsNullStr(fn) \/ dt = NaT THEN FALSE
    ELSE LET f1 == StrTrim(fn)
             f2 == StrUpper(StrTrim(f1))
         IN  /\ f1 # <<>>
             /\ ~IsDigitStr(f1)
             /\ ~(Len(f1) > MAX_FLTNO_DIGITS_TRIPJACK)
             /\ ~(RStripZeros(f1) = <<>> \/ IsAlphaStr(RStripZeros(f1)))
             /\ ShapeOk(f2)

\* the tuple (fn, dt, depAp, arrAp) built from column i of a row
MakeLeg(row, i, fn) ==
    [fn |-> fn, dt |-> row.dt[i][1], dep |-> row.ap[i], arr |-> row.ap[i + 1]]

\* bluestar: for i in range(1, 5), from column i on, flights collected so far in acc
RECURSIVE BluestarCollect(_, _, _)
BluestarCollect(row, i, acc) ==
    IF i > BLUESTAR_LEGS THEN acc
    ELSE LET c == BluestarCheckLeg(row.fn[i], row.dt[i])
         IN  CASE c.verdict = "droprow" -> <<>>
               [] c.verdict = "skip" -> BluestarCollect(row, i + 1, acc)
               [] OTHER -> BluestarCollect(row, i + 1, Append(acc, MakeLeg(row, i, c.fn)))

\* tripjack: for i in range(1, 6); the leg keeps the flight number as the view gave it
RECURSIVE TripjackCollect(_, _, _)
TripjackCollect(row, i, acc) ==
    IF i > TRIPJACK_LEGS THEN acc
    ELSE IF ~is_valid_flightno(row.fn[i], row.dt[i])
         THEN TripjackCollect(row, i + 1, acc)
         ELSE TripjackCollect(row, i + 1, Append(acc, MakeLeg(row, i, row.fn[i])))

----------------------------------------------------------------------------
(* Sort, dedup, grouping.                                                  *)

\* dt.date(): the calendar day of a timestamp
DateOf(t) == t \div TicksPerDay

\* variant of InsertByDate: f goes before the legs of the same timestamp
RECURSIVE InsertByDate_Unstable(_, _)
InsertByDate_Unstable(s, f) ==
    IF s = <<>> THEN <<f>>
    ELSE IF f.dt <= Head(s).dt THEN <<f>> \o s
         ELSE <<Head(s)>> \o InsertByDate_Unstable(Tail(s), f)

\* insert leg f into the date-sorted list s after every leg that is not later
RECURSIVE InsertByDate(_, _)
InsertByDate(s, f) ==
    IF s = <<>> THEN <<f>>
    ELSE IF f.dt < Head(s).dt THEN <<f>> \o s
         ELSE <<Head(s)>> \o InsertByDate(Tail(s), f)

\* flights.sort(key=lambda x: x[1]): a stable sort by date
RECURSIVE SortByDate(_)
SortByDate(flights) ==
    IF flights = <<>> THEN <<>>
    ELSE InsertByDate(SortByDate(SubSeq(flights, 1, Len(flights) - 1)),
                      flights[Len(flights)])

\* variant of SegmentKey: the key keeps the time of day
SegmentKey_Exact(f) == <<f.fn, f.dt>>

\* key = (fn, dt.date())
SegmentKey(f) == <<f.fn, DateOf(f.dt)>>

\* the seen_segments loop: keep a leg unless its key was seen before
RECURSIVE UniqueFlights(_, _)
UniqueFlights(flights, seen) ==
    IF flights = <<>> THEN <<>>
    ELSE LET f == Head(flights)
         IN  IF SegmentKey(f) \in seen THEN UniqueFlights(Tail(flights), seen)
             ELSE <<f>> \o UniqueFlights(Tail(flights), seen \cup {SegmentKey(f)})

\* variant of deduplicate_flights: the sort is left out
deduplicate_flights_NoSort(fls) == UniqueFlights(fls, {})

\* tripjack deduplicate_flights / bluestar lines 273-289
deduplicate_flights(flights) == UniqueFlights(SortByDate(flights), {})

\* variants of WithinRouteSpan: a span of two days; a span of less than one day
WithinRouteSpan_TwoDays(t, start) == Abs(t - start) <= TimedeltaDays(2)

WithinRouteSpan_Strict(t, start) == Abs(t - start) < TimedeltaDays(1)

\* abs(f[1] - route_start_date) <= timedelta(days=1)
WithinRouteSpan(t, start) == Abs(t - start) <= TimedeltaDays(1)

\* tripjack is_same_route(d1, d2) on two timestamps
is_same_route(d1, d2) == Abs(d2 - d1) <= TimedeltaDays(ROUTE_MAX_DAYS)

\* variant of the grouping loop: the anchor moves to the leg just appended
RECURSIVE BluestarGroup_Chain(_, _, _, _)
BluestarGroup_Chain(rest, routes, current, route_start_date) ==
    IF rest = <<>> THEN Append(routes, current)
    ELSE LET f == Head(rest)
         IN  IF WithinRouteSpan(f.dt, route_start_date)
             THEN BluestarGroup_Chain(Tail(rest), routes, Append(current, f), f.dt)
             ELSE BluestarGroup_Chain(Tail(rest), Append(routes, current), <<f>>, f.dt)

\* the grouping loop over flights[1:], routes closed so far and the current one
RECURSIVE BluestarGroup(_, _, _, _)
BluestarGroup(rest, routes, current, route_start_date) ==
    IF rest = <<>> THEN Append(routes, current)
    ELSE LET f == Head(rest)
         IN  IF WithinRouteSpan(f.dt, route_start_date)
             THEN BluestarGroup(Tail(rest), routes, Append(current, f), route_start_date)
             ELSE BluestarGroup(Tail(rest), Append(routes, current), <<f>>, f.dt)

RECURSIVE TripjackGroup(_, _, _, _)
TripjackGroup(rest, routes, current, route_start_date) ==
    IF rest = <<>> THEN Append(routes, current)
    ELSE LET f == Head(rest)
         IN  IF is_same_route(f.dt, route_start_date)
             THEN TripjackGroup(Tail(rest), routes, Append(current, f), route_start_date)
             ELSE TripjackGroup(Tail(rest), Append(routes, current), <<f>>, f.dt)

\* variant of bluestar lines 294-308: the route in progress at the end is not appended
BluestarRoutes_DropsFinalRoute(flights) ==
    LET r == BluestarGroup(Tail(flights), <<>>, <<flights[1]>>, flights[1].dt)
    IN  SubSeq(r, 1, Len(r) - 1)

\* bluestar lines 294-308, on a non-empty flight list
BluestarRoutes(flights) == BluestarGroup(Tail(flights), <<>>, <<flights[1]>>, flights[1].dt)

\* variant of group_into_routes: the route in progress at the end is not appended
group_into_routes_DropsLastRoute(flights) ==
    LET r == TripjackGroup(Tail(flights), <<>>, <<flights[1]>>, flights[1].dt)
    IN  SubSeq(r, 1, Len(r) - 1)

\* tripjack group_into_routes(flights), on a non-empty flight list
group_into_routes(flights) ==
    TripjackGroup(Tail(flights), <<>>, <<flights[1]>>, flights[1].dt)

----------------------------------------------------------------------------
(* Projection of a route to a fixed-width record.                          *)

\* fn_out = [None] * n, dt_out = [None] * n, ap_out = [None] * (n + 1)
EmptyRecord(base, n) ==
    [base |-> base,
     fn |-> [i \in 1..n |-> NullStr],
     dt |-> [i \in 1..n |-> NaT],
     ap |-> [i \in 1..(n + 1) |-> NoneAp]]

\* the body of "for i, (fn, dt, dep_ap, arr_ap) in enumerate(...)" for the i-th leg
FillSlot(rec, i, f) ==
    LET ap1 == [rec.ap EXCEPT ![i] = f.dep]
        ap2 == IF i + 1 <= Len(ap1) THEN [ap1 EXCEPT ![i + 1] = f.arr] ELSE ap1
    IN  [rec EXCEPT !.fn[i] = f.fn, !.dt[i] = <<f.dt>>, !.ap = ap2]

RECURSIVE FillSlots(_, _, _)
FillSlots(rec, legs, i) ==
    IF i > Len(legs) THEN rec ELSE FillSlots(FillSlot(rec, i, legs[i]), legs, i + 1)

\* bluestar lines 311-326 with the route cut after its second leg
BluestarRecord_CutTwo(base, route) ==
    FillSlots(EmptyRecord(base, BLUESTAR_LEGS), SubSeq(route, 1, Min(Len(route), 2)), 1)

\* bluestar lines 311-326 for one route
BluestarRecord(base, route) ==
    FillSlots(EmptyRecord(base, BLUESTAR_LEGS),
              SubSeq(route, 1, Min(Len(route), BLUESTAR_ROUTE_CUT)), 1)

\* tripjack lines 282-295 for one route
TripjackRecord(base, route) ==
    FillSlots(EmptyRecord(base, TRIPJACK_LEGS),
              SubSeq(route, 1, Min(Len(route), TRIPJACK_ROUTE_CUT)), 1)

----------------------------------------------------------------------------
(* The batch merge and the insert.                                         *)

\* df_out.replace("", None) on one record
ReplaceEmpty(rec) ==
    LET fix(x) == IF x = "" THEN NoneAp ELSE x
    IN  [rec EXCEPT !.base = [k \in DOMAIN rec.base |-> fix(rec.base[k])],
                    !.ap = [i \in 1..Len(rec.ap) |-> fix(rec.ap[i])]]

\* the columns of unique_indices / of the table's UNIQUE constraint
NaturalKey(rec) == <<rec.base.pnr, rec.base.airline, rec.base.ticket, rec.fn, rec.dt, rec.ap>>

\* a NULL in a column of the UNIQUE constraint: such a row conflicts with no row
KeyHasNull(rec) ==
    \/ NoneAp \in {rec.base.pnr, rec.base.airline, rec.base.ticket}
    \/ \E i \in 1..Len(rec.fn) : rec.fn[i] = NullStr
    \/ \E i \in 1..Len(rec.dt) : rec.dt[i] = NaT
    \/ \E i \in 1..Len(rec.ap) : rec.ap[i] = NoneAp

\* variant of drop_duplicates: a record is compared with the record before it only
RECURSIVE DropDuplicates_Adjacent(_, _)
DropDuplicates_Adjacent(recs, seen) ==
    IF recs = <<>> THEN <<>>
    ELSE IF NaturalKey(Head(recs)) \in seen THEN DropDuplicates_Adjacent(Tail(recs), seen)
         ELSE <<Head(recs)>> \o DropDuplicates_Adjacent(Tail(recs), {NaturalKey(Head(recs))})

\* df_out.drop_duplicates(subset=unique_indices): the first row of each key is kept
RECURSIVE DropDuplicates(_, _)
DropDuplicates(recs, seen) ==
    IF recs = <<>> THEN <<>>
    ELSE IF NaturalKey(Head(recs)) \in seen THEN DropDuplicates(Tail(recs), seen)
         ELSE <<Head(recs)>> \o DropDuplicates(Tail(recs), seen \cup {NaturalKey(Head(recs))})

\* INSERT OR IGNORE INTO target SELECT * FROM df_out
RECURSIVE InsertOrIgnore(_, _)
InsertOrIgnore(table, recs) ==
    IF recs = <<>> THEN table
    ELSE LET r == Head(recs)
             clash == /\ ~KeyHasNull(r)
                      /\ \E j \in 1..Len(table) : NaturalKey(table[j]) = NaturalKey(r)
         IN  InsertOrIgnore(IF clash THEN table ELSE Append(table, r), Tail(recs))

----------------------------------------------------------------------------
(* The scripts.                                                            *)

\* the FN column of script s's view for the raw flight number
ViewFn(s, raw) == IF s = "bluestar" THEN BluestarViewFn(raw) ELSE TripjackViewFn(raw)

\* one row of script s's cleaned_source for a source row
CleanRow(row, s) ==
    [base |-> row.base,
     fn |-> [i \in 1..Len(row.fn) |-> ViewFn(s, row.fn[i])],
     dt |-> [i \in 1..Len(row.dt) |-> TryCastTimestamp(row.dt[i])],
     ap |-> row.ap]

\* the rows script s's view shows for the source row
CleanedSource(row, s) ==
    LET c == CleanRow(row, s)
    IN  IF ViewKeepsRow(c.dt) THEN <<c>> ELSE <<>>

\* the records of a list of routes of script s
RouteRecords(base, rs, s) ==
    [k \in 1..Len(rs) |->
        IF s = "bluestar" THEN BluestarRecord(base, rs[k]) ELSE TripjackRecord(base, rs[k])]

BluestarCreateCleanView ==
    /\ pc = "raw"
    /\ script = "bluestar"
    /\ view' = CleanedSource(src, "bluestar")
    /\ pc' = "viewed"
    /\ UNCHANGED <<script, src, row_valid, row_flights, row_routes, out, target, again, target_once, df_out, loop>>

TripjackCreateCleanView ==
    /\ pc = "raw"
    /\ script = "tripjack"
    /\ view' = CleanedSource(src, "tripjack")
    /\ pc' = "viewed"
    /\ UNCHANGED <<script, src, row_valid, row_flights, row_routes, out, target, again, target_once, df_out, loop>>

\* bluestar lines 224-326 for one row of the batch: the records of its routes, none
\* for a row without flights
BluestarRowRecords(row) ==
    LET valid == BluestarCollect(row, 1, <<>>)
        fl == IF valid = <<>> THEN <<>> ELSE deduplicate_flights(valid)
        rs == IF fl = <<>> THEN <<>> ELSE BluestarRoutes(fl)
    IN  IF rs = <<>> THEN <<>> ELSE RouteRecords(row.base, rs, "bluestar")

\* out_rows after the loop over the rows of the batch
RECURSIVE BluestarOutRows(_)
BluestarOutRows(rows) ==
    IF rows = <<>> THEN <<>> ELSE BluestarRowRecords(Head(rows)) \o BluestarOutRows(Tail(rows))

\* df_out.replace("", None), then drop_duplicates(subset=unique_indices)
BluestarMerge(rows) == DropDuplicates([k \in 1..Len(rows) |-> ReplaceEmpty(rows[k])], {})

\* bluestar process_batch on the batch of cleaned_source; row_valid, row_flights and
\* row_routes are those of the last row of the batch
BluestarProcessBatch ==
    /\ pc = "viewed"
    /\ script = "bluestar"
    /\ LET valid == IF view = <<>> THEN <<>> ELSE BluestarCollect(view[Len(view)], 1, <<>>)
           fl == IF valid = <<>> THEN <<>> ELSE deduplicate_flights(valid)
           rs == IF fl = <<>> THEN <<>> ELSE BluestarRoutes(fl)
           rows == BluestarOutRows(view)
       IN  /\ row_valid' = valid
           /\ row_flights' = fl
           /\ row_routes' = rs
           /\ out' = rows
           /\ df_out' = BluestarMerge(rows)
           /\ target' = InsertOrIgnore(target, BluestarMerge(rows))
    /\ pc' = "done"
    /\ UNCHANGED <<script, src, view, again, target_once, loop>>

\* tripjack process_batch on the batch of cleaned_source
TripjackProcessBatch ==
    /\ pc = "viewed"
    /\ script = "tripjack"
    /\ LET valid == IF view = <<>> THEN <<>> ELSE TripjackCollect(view[1], 1, <<>>)
           fl == IF valid = <<>> THEN <<>> ELSE deduplicate_flights(valid)
           rs == IF fl = <<>> THEN <<>> ELSE group_into_routes(fl)
           rows == IF rs = <<>> THEN <<>> ELSE RouteRecords(view[1].base, rs, "tripjack")
       IN  /\ row_valid' = valid
           /\ row_flights' = fl
           /\ row_routes' = rs
           /\ out' = rows
           /\ df_out' = rows
           /\ target' = InsertOrIgnore(target, rows)
    /\ pc' = "done"
    /\ UNCHANGED <<script, src, view, again, target_once, loop>>

Next ==
    \/ BluestarCreateCleanView
    \/ BluestarProcessBatch
    \/ TripjackCreateCleanView
    \/ TripjackProcessBatch

----------------------------------------------------------------------------
(* Input rows.                                                             *)

Str_TK0006 == <<"T", "K", "0", "0", "0", "6">>
Str_AI9 == <<"A", "I", "9">>
Str_TK000 == <<"T", "K", "0", "0", "0">>

\* a date value TRY_CAST cannot convert
GarbageDate == <<0, 0>>

Scripts == {"bluestar", "tripjack"}

NumLegs(s) == IF s = "bluestar" THEN BLUESTAR_LEGS ELSE TRIPJACK_LEGS

\* the booking attributes of the row, opaque to the leg logic
Base == [pnr |-> "P1", airline |-> "TK", ticket |-> "T1", other |-> "x"]

\* the airports of the row: one per column, all different
AirportNames == <<"a1", "a2", "a3", "a4", "a5", "a6", "a7", "a8">>

Airports(n) == SubSeq(AirportNames, 1, n + 1)

AbsentLeg == [fn |-> NullStr, dt |-> NaT]

\* a populated leg column: two flight numbers at every tick, a placeholder flight
\* number, and a date that does not parse
RouteLegChoices ==
    {[fn |-> f, dt |-> <<t>>] : f \in {Str_TK0006, Str_AI9}, t \in 0..MaxTick}
        \cup {[fn |-> Str_TK000, dt |-> <<0>>], [fn |-> Str_AI9, dt |-> GarbageDate]}

\* the rows of n leg columns with at most MaxPresent populated, each from choices
RowsOf(n, choices) ==
    {[base |-> Base,
      fn |-> [i \in 1..n |-> c[i].fn],
      dt |-> [i \in 1..n |-> c[i].dt],
      ap |-> Airports(n)] :
        c \in {d \in [1..n -> choices \cup {AbsentLeg}] :
                 Cardinality({i \in 1..n : d[i] # AbsentLeg}) <= MaxPresent}}

InitCommon ==
    /\ script \in Scripts \cup {"tbo3_python_copy", "test_sql_main", "tbo3_claude"}
    /\ view = <<>>
    /\ row_valid = <<>>
    /\ row_flights = <<>>
    /\ row_routes = <<>>
    /\ out = <<>>
    /\ target = <<>>
    /\ pc = "raw"
    /\ again = NullStr
    /\ target_once = <<>>
    /\ df_out = <<>>
    /\ loop = NoLoop

Init ==
    /\ InitCommon
    /\ script \in Scripts
    /\ src \in RowsOf(NumLegs(script), RouteLegChoices)

Spec == Init /\ [][Next]_vars

----------------------------------------------------------------------------
(* tbo3_python_copy: process_batch reads the source table itself, keeps    *)
(* the legs in column order and chains them leg to leg.                    *)

TBO_LEGS == 7

\* is_rnk(flight): flight.endswith("000")
is_rnk(flight) ==
    Len(flight) >= 3 /\ SubSeq(flight, Len(flight) - 2, Len(flight)) = <<"0", "0", "0">>

\* str(int(number)) for a digit run
IntOfDigits(number) ==
    IF LeadingZeros(number) = Len(number) THEN <<"0">>
    ELSE SubSeq(number, LeadingZeros(number) + 1, Len(number))

\* normalize_flight_number(fn): re.fullmatch(r"([A-Z]{2,3})(0*)(\d+)", fn) gives
\* airline + int(number), anything else stays as it is
normalize_flight_number(fn) ==
    LET f == StrUpper(StrTrim(fn))
        ks == {k \in {2, 3} : /\ k < Len(f)
                               /\ AllUpper(SubSeq(f, 1, k))
                               /\ AllDigits(SubSeq(f, k + 1, Len(f)))}
    IN  IF ks = {} THEN f
        ELSE LET k == CHOOSE j \in ks : TRUE
             IN  SubSeq(f, 1, k) \o IntOfDigits(SubSeq(f, k + 1, Len(f)))

\* normalize_date(value): NaT for a value that does not parse or whose year is outside
\* [VALID_YEAR_MIN, VALID_YEAR_MAX]
normalize_date(value) ==
    LET d == TryCastTimestamp(value)
    IN  IF d = NaT THEN NaT
        ELSE IF d[1] < WindowStart \/ d[1] >= WindowEnd + TicksPerDay THEN NaT
        ELSE d

\* timedelta.days: whole days of a duration, rounded down
DaysOf(delta) == delta \div TicksPerDay

\* same_route(d1, d2): abs((d2 - d1).days) <= 1
same_route(d1, d2) == Abs(DaysOf(d2 - d1)) <= 1

\* the loop building cleaned_raw from column i on; seen is unique_flights
RECURSIVE TboCleanedRaw(_, _, _, _)
TboCleanedRaw(row, i, seen, acc) ==
    IF i > TBO_LEGS THEN acc
    ELSE LET fn == row.fn[i]
             dt == row.dt[i]
             fn_clean == StrUpper(StrTrim(fn))
         IN  IF IsNullStr(fn) \/ fn = <<>> \/ dt = NaT
                  \/ is_rnk(fn_clean) \/ <<fn_clean, dt>> \in seen
             THEN TboCleanedRaw(row, i + 1, seen, acc)
             ELSE TboCleanedRaw(row, i + 1, seen \cup {<<fn_clean, dt>>},
                                Append(acc, [fn |-> fn_clean, dt |-> dt, dep |-> row.ap[i]]))

\* the loop building flights: the legs whose flight number and date both normalize
RECURSIVE TboFlights(_)
TboFlights(cleaned_raw) ==
    IF cleaned_raw = <<>> THEN <<>>
    ELSE LET c == Head(cleaned_raw)
             n_fn == normalize_flight_number(c.fn)
             n_dt == normalize_date(c.dt)
         IN  IF n_fn # <<>> /\ n_dt # NaT
             THEN <<[fn |-> n_fn, dt |-> n_dt[1], dep |-> c.dep]>> \o TboFlights(Tail(cleaned_raw))
             ELSE TboFlights(Tail(cleaned_raw))

\* the loop building routes: a leg equal to the previous one is skipped, a leg on the
\* same route as the previous one extends the route, any other starts a new route
RECURSIVE TboChain(_, _, _)
TboChain(rest, rts, current) ==
    IF rest = <<>> THEN (IF current # <<>> THEN Append(rts, current) ELSE rts)
    ELSE LET f == Head(rest)
             prev == current[Len(current)]
         IN  IF current = <<>> THEN TboChain(Tail(rest), rts, <<f>>)
             ELSE IF f.fn = prev.fn /\ f.dt = prev.dt THEN TboChain(Tail(rest), rts, current)
             ELSE IF same_route(prev.dt, f.dt) THEN TboChain(Tail(rest), rts, Append(current, f))
             ELSE TboChain(Tail(rest), Append(rts, current), <<f>>)

\* the seen / compacted loop of one route
RECURSIVE TboCompact(_, _)
TboCompact(route, seen) ==
    IF route = <<>> THEN <<>>
    ELSE LET f == Head(route)
         IN  IF <<f.fn, f.dt>> \in seen THEN TboCompact(Tail(route), seen)
             ELSE <<f>> \o TboCompact(Tail(route), seen \cup {<<f.fn, f.dt>>})

\* new_row for one route: slot i holds the flight number, date and airport of leg i
TboRecord(base, route) ==
    LET compacted == TboCompact(route, {})
        filled(i) == i <= Len(compacted)
    IN  [base |-> base,
         fn |-> [i \in 1..TBO_LEGS |-> IF filled(i) THEN compacted[i].fn ELSE NullStr],
         dt |-> [i \in 1..TBO_LEGS |-> IF filled(i) THEN <<compacted[i].dt>> ELSE NaT],
         ap |-> [i \in 1..(TBO_LEGS + 1) |-> IF filled(i) THEN compacted[i].dep ELSE NoneAp]]

\* tbo3_python_copy process_batch on the batch of the source table
TboCopyProcessBatch ==
    /\ pc = "raw"
    /\ script = "tbo3_python_copy"
    /\ LET cleaned_raw == TboCleanedRaw(src, 1, {}, <<>>)
           fl == TboFlights(cleaned_raw)
           rs == IF fl = <<>> THEN <<>> ELSE TboChain(fl, <<>>, <<>>)
           rows == [k \in 1..Len(rs) |-> TboRecord(src.base, rs[k])]
       IN  /\ row_valid' = cleaned_raw
           /\ row_flights' = fl
           /\ row_routes' = rs
           /\ out' = rows
           /\ df_out' = rows
           /\ target' = target \o rows
    /\ pc' = "done"
    /\ UNCHANGED <<script, src, view, again, target_once, loop>>

\* rows for the same-route tests: bluestar rows and tbo3_python_copy rows
SameRouteScripts == {"bluestar", "tbo3_python_copy"}

InitSameRoute ==
    /\ InitCommon
    /\ script \in SameRouteScripts
    /\ src \in RowsOf(IF script = "bluestar" THEN BLUESTAR_LEGS ELSE TBO_LEGS, RouteLegChoices)

NextSameRoute ==
    \/ BluestarCreateCleanView
    \/ BluestarProcessBatch
    \/ TboCopyProcessBatch

SpecSameRoute == InitSameRoute /\ [][NextSameRoute]_vars

----------------------------------------------------------------------------
(* Rows whose leg dates lie on both sides of the start of the year window. *)

WindowLegChoices == {[fn |-> Str_AI9, dt |-> <<t>>] : t \in (0 - PreTicks)..MaxTick}

InitWindow ==
    /\ InitCommon
    /\ script \in Scripts
    /\ src \in RowsOf(NumLegs(script), WindowLegChoices)

SpecWindow == InitWindow /\ [][Next]_vars

----------------------------------------------------------------------------
(* Flight-number normalisation: a row with one leg, whose raw flight       *)
(* number ranges over every short string and over the named examples; the  *)
(* flight number a script writes out is then fed to the script once more.  *)

NormAlphabet == {"A", "a", "0", "1", " "}

BoundedStrings == UNION {[1..n -> NormAlphabet] : n \in 0..MaxLen}

Str_G8 == <<"G", "8">>
Str_6E1234 == <<"6", "E", "1", "2", "3", "4">>
Str_6E0123 == <<"6", "E", "0", "1", "2", "3">>
Str_TK6 == <<"T", "K", "6">>
Str_TK1234567 == <<"T", "K", "1", "2", "3", "4", "5", "6", "7">>
Str_12Zeros == [i \in 1..12 |-> "0"]

Examples ==
    {Str_TK0006, Str_TK000, Str_G8, Str_6E1234, Str_6E0123, Str_TK6, Str_AI9,
     Str_TK1234567, Str_12Zeros}

RawInputs == BoundedStrings \cup Examples \cup {NullStr}

\* the row of n leg columns whose first column holds (fn, tick 0)
OneLegRow(n, fn) ==
    [base |-> Base,
     fn |-> [i \in 1..n |-> IF i = 1 THEN fn ELSE NullStr],
     dt |-> [i \in 1..n |-> IF i = 1 THEN <<0>> ELSE NaT],
     ap |-> Airports(n)]

\* a second run of the script, from a fresh target table, over the flight number the
\* first run wrote out
Refeed ==
    /\ pc = "done"
    /\ again = NullStr
    /\ out # <<>>
    /\ again' = out[1].fn[1]
    /\ src' = OneLegRow(NumLegs(script), out[1].fn[1])
    /\ view' = <<>>
    /\ row_valid' = <<>>
    /\ row_flights' = <<>>
    /\ row_routes' = <<>>
    /\ out' = <<>>
    /\ target' = <<>>
    /\ pc' = "raw"
    /\ df_out' = <<>>
    /\ UNCHANGED <<script, target_once, loop>>

InitNorm ==
    /\ InitCommon
    /\ script \in Scripts
    /\ \E fn \in RawInputs : src = OneLegRow(NumLegs(script), fn)

NextNorm ==
    \/ Next
    \/ Refeed

SpecNorm == InitNorm /\ [][NextNorm]_vars

----------------------------------------------------------------------------
(* Properties of the routes of a row (bluestar, tripjack).                 *)

Done == pc = "done"

\* the column a leg was read from: its departure airport is that column's airport
ColumnOf(f) == CHOOSE i \in 1..Len(AirportNames) : AirportNames[i] = f.dep

OneDay == TimedeltaDays(1)

\* C1: in every route of the row, adjacent legs are at most one day apart:
\* date[i+1] - date[i] <= 1 day.
C1_AdjacentLegsWithinGap ==
    Done => \A k \in 1..Len(row_routes) :
              \A i \in 1..(Len(row_routes[k]) - 1) :
                row_routes[k][i + 1].dt - row_routes[k][i].dt <= OneDay

\* a route with three legs, two of them exactly one day apart
C1_Witness ==
    /\ Done
    /\ \E k \in 1..Len(row_routes) :
         /\ Len(row_routes[k]) >= 3
         /\ \E i \in 1..(Len(row_routes[k]) - 1) :
              row_routes[k][i + 1].dt - row_routes[k][i].dt = OneDay

\* C2 as stated: between two consecutive routes, the gap from the last leg of the
\* earlier route to the first leg of the later route exceeds one day.
C2_BoundaryGapFromLastLeg ==
    Done => \A k \in 1..(Len(row_routes) - 1) :
              row_routes[k + 1][1].dt - row_routes[k][Len(row_routes[k])].dt > OneDay

\* C2 amended: between two consecutive routes, the gap from the first leg of the
\* earlier route (the anchor of the fixed-start policy) to the first leg of the later
\* route exceeds one day.
C2_BoundaryGapFromRouteStart ==
    Done => \A k \in 1..(Len(row_routes) - 1) :
              row_routes[k + 1][1].dt - row_routes[k][1].dt > OneDay

\* two consecutive routes whose facing legs are no more than one day apart
C2_Witness ==
    /\ Done
    /\ \E k \in 1..(Len(row_routes) - 1) :
         row_routes[k + 1][1].dt - row_routes[k][Len(row_routes[k])].dt <= OneDay

\* C3 as stated: the legs of every route are strictly ordered by date,
\* date[i] < date[i+1].
C3_StrictlyAscending ==
    Done => \A k \in 1..Len(row_routes) :
              \A i \in 1..(Len(row_routes[k]) - 1) :
                row_routes[k][i].dt < row_routes[k][i + 1].dt

\* C3 amended: the legs of every route are ordered by date, date[i] <= date[i+1], and
\* two adjacent legs of the same date have different flight numbers.
C3_Ascending ==
    Done => \A k \in 1..Len(row_routes) :
              \A i \in 1..(Len(row_routes[k]) - 1) :
                \/ row_routes[k][i].dt < row_routes[k][i + 1].dt
                \/ /\ row_routes[k][i].dt = row_routes[k][i + 1].dt
                   /\ row_routes[k][i].fn # row_routes[k][i + 1].fn

\* a route with two adjacent legs of the same timestamp, read from columns in
\* descending date order
C3_Witness ==
    /\ Done
    /\ \E k \in 1..Len(row_routes) :
         \E i \in 1..(Len(row_routes[k]) - 1) :
           row_routes[k][i].dt = row_routes[k][i + 1].dt
    /\ \E i \in 1..(Len(row_valid) - 1) : row_valid[i].dt > row_valid[i + 1].dt

\* the legs of a sequence, as a set
Legs(fls) == {fls[i] : i \in 1..Len(fls)}

\* C5 as stated: among the valid legs of a row with the same (flight number, day),
\* the leg kept is the one of the lowest-numbered column.
C5_KeepsLowestColumn ==
    Done => \A g \in Legs(row_valid) :
              \E f \in Legs(row_flights) :
                /\ SegmentKey(f) = SegmentKey(g)
                /\ ColumnOf(f) <= ColumnOf(g)

\* C5 amended: among the valid legs of a row with the same (flight number, day), the
\* leg kept is the one of the earliest timestamp and, among those, of the
\* lowest-numbered column; every other occurrence is dropped.
C5_KeepsEarliestThenLowestColumn ==
    Done => /\ \A g \in Legs(row_valid) :
                 \E f \in Legs(row_flights) :
                   /\ SegmentKey(f) = SegmentKey(g)
                   /\ \/ f.dt < g.dt
                      \/ f.dt = g.dt /\ ColumnOf(f) <= ColumnOf(g)
            /\ Legs(row_flights) \subseteq Legs(row_valid)
            /\ \A f, g \in Legs(row_flights) : SegmentKey(f) = SegmentKey(g) => f = g

\* a leg was dropped for a later column's leg of the same key, and two legs of one
\* key and one timestamp were met
C5_Witness ==
    /\ Done
    /\ \E g \in Legs(row_valid) : \E f \in Legs(row_flights) :
         SegmentKey(f) = SegmentKey(g) /\ ColumnOf(g) < ColumnOf(f)
    /\ \E g \in Legs(row_valid) : \E f \in Legs(row_flights) :
         f.fn = g.fn /\ f.dt = g.dt /\ ColumnOf(f) < ColumnOf(g)

\* the filled leg slots of a record
FilledSlots(rec) == {j \in 1..Len(rec.fn) : rec.fn[j] # NullStr}

\* C6: after deduplication the legs of a row, of each of its routes and of each of
\* its output records are pairwise distinct under (flight number, day).
C6_DistinctUnderKey ==
    Done =>
      /\ \A i, j \in 1..Len(row_flights) :
           i # j => SegmentKey(row_flights[i]) # SegmentKey(row_flights[j])
      /\ \A k \in 1..Len(row_routes) : \A i, j \in 1..Len(row_routes[k]) :
           i # j => SegmentKey(row_routes[k][i]) # SegmentKey(row_routes[k][j])
      /\ \A k, m \in 1..Len(out) :
           \A i \in FilledSlots(out[k]) : \A j \in FilledSlots(out[m]) :
             (k # m \/ i # j) =>
               <<out[k].fn[i], DateOf(out[k].dt[i][1])>> # <<out[m].fn[j], DateOf(out[m].dt[j][1])>>

\* a duplicate was dropped from a row that keeps two legs of one flight number
C6_Witness ==
    /\ Done
    /\ Len(row_flights) < Len(row_valid)
    /\ \E i, j \in 1..Len(row_flights) : i # j /\ row_flights[i].fn = row_flights[j].fn

----------------------------------------------------------------------------
(* Properties of the leg dates and of the flight-number normalisation.     *)

\* C7 as stated: every leg written into an output record has its date inside
\* [VALID_YEAR_MIN-01-01, VALID_YEAR_MAX-12-31].
C7_EmittedDatesInWindow ==
    (Done /\ script = "bluestar") =>
        \A k \in 1..Len(out) : \A i \in FilledSlots(out[k]) : InYearWindow(out[k].dt[i])

\* an airline code followed by a digit run that is not empty and does not start with
\* "0"; the code is 2 or 3 letters, or a digit and a letter
IsCanonical(s) ==
    \E k \in {2, 3} : /\ k < Len(s)
                      /\ IsLetterOrDigitLetterCode(SubSeq(s, 1, k))
                      /\ AllDigits(SubSeq(s, k + 1, Len(s)))
                      /\ s[k + 1] # "0"

\* the first run of the script over the row
FirstPass == Done /\ again = NullStr

\* the run over the flight number the first run wrote out
SecondPass == Done /\ again # NullStr

\* C8 as stated: every flight number bluestar writes into an output record is in
\* canonical form, an airline code followed by digits without leading zeros.
C8_EmittedFlightNumbersCanonical ==
    (Done /\ script = "bluestar") =>
        \A k \in 1..Len(out) : \A i \in FilledSlots(out[k]) : IsCanonical(out[k].fn[i])

\* the row yields one record whose first flight number is fn and whose other leg
\* slots are empty
AcceptedAs(fn) ==
    /\ Len(out) = 1
    /\ out[1].fn[1] = fn
    /\ \A i \in 2..Len(out[1].fn) : out[1].fn[i] = NullStr

Rejected == out = <<>>

\* C9: normalisation (view rewrite, then validation) maps "TK0006" to "TK6", rejects
\* "TK000" and "G8", and accepts "6E1234" unchanged, in bluestar and in tripjack.
C9_NormalizationExamples ==
    FirstPass =>
      /\ src.fn[1] = Str_TK0006 => AcceptedAs(Str_TK6)
      /\ src.fn[1] = Str_TK000 => Rejected
      /\ src.fn[1] = Str_G8 => Rejected
      /\ src.fn[1] = Str_6E1234 => AcceptedAs(Str_6E1234)

\* tripjack has written "TK6" for the raw flight number "TK0006"
C9_Witness ==
    /\ FirstPass
    /\ script = "tripjack"
    /\ src.fn[1] = Str_TK0006
    /\ AcceptedAs(Str_TK6)

\* C10 as stated: every airline code + digits without leading zero is accepted, and
\* normalising an accepted output gives that output again.
C10_AcceptedAndIdempotent ==
    /\ (FirstPass /\ IsCanonical(src.fn[1])) => AcceptedAs(src.fn[1])
    /\ SecondPass => AcceptedAs(again)

\* normalising an accepted output gives that output again (the part of C10 that does
\* not ask for acceptance)
NormalizationIdempotent == SecondPass => AcceptedAs(again)

\* bluestar accepts every airline code + digits without leading zero as it is
BluestarAcceptsCanonical ==
    (FirstPass /\ script = "bluestar" /\ IsCanonical(src.fn[1])) => AcceptedAs(src.fn[1])

----------------------------------------------------------------------------
(* The same-route tests.                                                   *)

\* the pairs of dates <<anchor, leg>> a script's same-route test found on one route:
\* bluestar tests a leg against the first leg of the route, tbo3_python_copy against
\* the leg before it
JoinedPairs ==
    UNION {{<<(IF script = "bluestar" THEN row_routes[k][1].dt
               ELSE row_routes[k][i - 1].dt),
              row_routes[k][i].dt>> : i \in 2..Len(row_routes[k])} :
           k \in 1..Len(row_routes)}

\* the pairs the test found on different routes: the leg opening a route, against the
\* first (bluestar) or last (tbo3_python_copy) leg of the route before
SplitPairs ==
    {<<(IF script = "bluestar" THEN row_routes[k][1].dt
        ELSE row_routes[k][Len(row_routes[k])].dt),
       row_routes[k + 1][1].dt>> : k \in 1..(Len(row_routes) - 1)}

\* C4 as stated: two legs exactly one day apart are placed in the same route, and two
\* legs more than one day apart are placed in different routes.
C4_SameRouteIffWithinOneDay ==
    Done => /\ \A p \in SplitPairs : Abs(p[2] - p[1]) # OneDay
            /\ \A p \in JoinedPairs : Abs(p[2] - p[1]) <= OneDay

\* bluestar alone meets C4
C4_BluestarOnly == script = "bluestar" => C4_SameRouteIffWithinOneDay

----------------------------------------------------------------------------
(* Rows with legs that fail validation: each populated column holds a      *)
(* valid leg, a leg with a bad flight number, a leg with a bad date, or a  *)
(* leg with an oversized all-digit flight number.                          *)

Str_Blank == <<" ", " ">>

RejectLegChoices ==
    {[fn |-> Str_AI9, dt |-> <<0>>], [fn |-> Str_AI9, dt |-> <<1>>],
     [fn |-> Str_TK0006, dt |-> <<0>>],
     [fn |-> Str_TK000, dt |-> <<0>>], [fn |-> Str_G8, dt |-> <<0>>],
     [fn |-> Str_Blank, dt |-> <<0>>], [fn |-> NullStr, dt |-> <<0>>],
     [fn |-> Str_AI9, dt |-> NaT], [fn |-> Str_AI9, dt |-> GarbageDate],
     [fn |-> Str_12Zeros, dt |-> <<0>>], [fn |-> Str_12Zeros, dt |-> GarbageDate]}

InitReject ==
    /\ InitCommon
    /\ script \in Scripts
    /\ src \in RowsOf(NumLegs(script), RejectLegChoices)

SpecReject == InitReject /\ [][Next]_vars

\* the row of cleaned_source for the source row, whether or not the view shows it
Cleaned == CleanRow(src, script)

Columns == 1..NumLegs(script)

\* the flight number of column i is all digits and longer than MAX_FLTNO_DIGITS
OversizedNumeric(i) ==
    /\ ~IsNullStr(Cleaned.fn[i])
    /\ IsDigitStr(StrTrim(Cleaned.fn[i]))
    /\ Len(StrTrim(Cleaned.fn[i])) > MAX_FLTNO_DIGITS_BLUESTAR

\* column i holds nothing usable: the flight number is null, blank, a placeholder
\* (nothing or only letters before its trailing zeros) or misshapen, or the date is
\* missing
FailsValidation(i) ==
    LET fn == Cleaned.fn[i]
    IN  \/ IsNullStr(fn)
        \/ StrTrim(fn) = <<>>
        \/ RStripZeros(StrTrim(fn)) = <<>>
        \/ IsAlphaStr(RStripZeros(StrTrim(fn)))
        \/ ~ShapeOk(StrUpper(StrTrim(fn)))
        \/ Cleaned.dt[i] = NaT

\* the legs written into the output records, as <<flight number, timestamp>>
EmittedLegs ==
    UNION {{<<out[k].fn[j], out[k].dt[j][1]>> : j \in FilledSlots(out[k])} :
           k \in 1..Len(out)}

\* bluestar has finished a row none of whose columns is oversized numeric
BluestarNoOversized ==
    Done /\ script = "bluestar" /\ \A i \in Columns : ~OversizedNumeric(i)

\* C11 as stated: a leg is emitted only if its flight number and date pass validation,
\* and every column that passes is emitted <<flight number, timestamp>> in some
\* output record, whatever fails in the other columns.
C11_EveryValidLegEmitted ==
    BluestarNoOversized =>
      /\ \A e \in EmittedLegs :
           \E i \in Columns : /\ ~FailsValidation(i)
                              /\ e = <<Cleaned.fn[i], Cleaned.dt[i][1]>>
      /\ \A i \in Columns :
           ~FailsValidation(i) => <<Cleaned.fn[i], Cleaned.dt[i][1]>> \in EmittedLegs

\* C11 amended: a leg is emitted only if its flight number and date pass validation,
\* and every column that passes is emitted unless it repeats the flight number and
\* calendar day of another passing column, and then a leg of that flight number and
\* day, no later than the column's, is emitted.
C11_EveryValidLegEmittedUpToDedup ==
    BluestarNoOversized =>
      /\ \A e \in EmittedLegs :
           \E i \in Columns : /\ ~FailsValidation(i)
                              /\ e = <<Cleaned.fn[i], Cleaned.dt[i][1]>>
      /\ \A i \in Columns :
           ~FailsValidation(i) =>
             \E e \in EmittedLegs : /\ e[1] = Cleaned.fn[i]
                                    /\ DateOf(e[2]) = DateOf(Cleaned.dt[i][1])
                                    /\ e[2] <= Cleaned.dt[i][1]
      /\ \A i \in Columns :
           (/\ ~FailsValidation(i)
            /\ \A j \in Columns \ {i} :
                 ~FailsValidation(j) =>
                   <<Cleaned.fn[j], DateOf(Cleaned.dt[j][1])>>
                     # <<Cleaned.fn[i], DateOf(Cleaned.dt[i][1])>>) =>
               <<Cleaned.fn[i], Cleaned.dt[i][1]>> \in EmittedLegs

\* a row with a leg of a bad flight number, a leg without a date and a leg that passes
C11_Witness ==
    /\ BluestarNoOversized
    /\ \E i, j \in Columns :
         /\ ~IsNullStr(Cleaned.fn[i]) /\ Cleaned.dt[i] # NaT /\ FailsValidation(i)
         /\ ~IsNullStr(Cleaned.fn[j]) /\ Cleaned.dt[j] = NaT
    /\ EmittedLegs # {}

\* C12 as stated: a bluestar row with a leg whose flight number is all digits and
\* longer than MAX_FLTNO_DIGITS yields no output record, whichever column the leg is
\* in and whatever its other fields are.
C12_OversizedNumericDropsRow ==
    (Done /\ script = "bluestar" /\ \E i \in Columns : OversizedNumeric(i)) => out = <<>>

\* the same for the rows whose oversized leg has a date
OversizedNumericWithDateDropsRow ==
    (/\ Done
     /\ script = "bluestar"
     /\ \E i \in Columns : OversizedNumeric(i) /\ Cleaned.dt[i] # NaT) => out = <<>>

\* column i holds a valid leg: the script's validation lets its flight number through
\* and its date lies in the year window
ValidLeg(i) ==
    /\ ~FailsValidation(i)
    /\ InYearWindow(Cleaned.dt[i])
    /\ IF script = "bluestar" THEN ~OversizedNumeric(i)
       ELSE /\ ~IsDigitStr(StrTrim(Cleaned.fn[i]))
            /\ Len(StrTrim(Cleaned.fn[i])) <= MAX_FLTNO_DIGITS_TRIPJACK

\* the strict rule fires: bluestar meets an oversized all-digit flight number on a leg
\* that has a date
StrictRuleFires ==
    /\ script = "bluestar"
    /\ \E i \in Columns : OversizedNumeric(i) /\ Cleaned.dt[i] # NaT

----------------------------------------------------------------------------
(* Properties of the projection of a route to a record.                    *)

\* C14 as stated: in a bluestar record, airport slot 1 holds the departure airport of
\* leg 1 and airport slot i+1 the arrival airport of leg i, for every leg i of the
\* route, also when that differs from the departure airport of leg i+1.
C14_SlotHoldsArrivalAirport ==
    (Done /\ script = "bluestar") =>
      /\ Len(out) = Len(row_routes)
      /\ \A k \in 1..Len(out) :
           /\ out[k].ap[1] = row_routes[k][1].dep
           /\ \A i \in 1..Len(row_routes[k]) : out[k].ap[i + 1] = row_routes[k][i].arr

\* what the records hold instead: airport slot i is the departure airport of leg i,
\* and the slot after the last leg is the arrival airport of the last leg
SlotHoldsDepartureAirport ==
    (Done /\ script = "bluestar") =>
      /\ Len(out) = Len(row_routes)
      /\ \A k \in 1..Len(out) :
           /\ \A i \in 1..Len(row_routes[k]) : out[k].ap[i] = row_routes[k][i].dep
           /\ out[k].ap[Len(row_routes[k]) + 1] = row_routes[k][Len(row_routes[k])].arr

----------------------------------------------------------------------------
(* Rows with every leg column populated.                                   *)

\* legs that fill one route of five legs, and a leg more than a day after the first
FullLegChoices ==
    {[fn |-> Str_AI9, dt |-> <<0>>], [fn |-> Str_TK0006, dt |-> <<1>>],
     [fn |-> Str_6E1234, dt |-> <<1>>], [fn |-> Str_AI9, dt |-> <<TicksPerDay>>],
     [fn |-> Str_TK0006, dt |-> <<TicksPerDay>>], [fn |-> Str_AI9, dt |-> <<MaxTick>>]}

\* the rows of n leg columns, each column absent or one of choices
FullRowsOf(n, choices) ==
    {[base |-> Base,
      fn |-> [i \in 1..n |-> c[i].fn],
      dt |-> [i \in 1..n |-> c[i].dt],
      ap |-> Airports(n)] : c \in [1..n -> choices \cup {AbsentLeg}]}

InitFull ==
    /\ InitCommon
    /\ script \in Scripts
    /\ src \in FullRowsOf(NumLegs(script), FullLegChoices)

SpecFull == InitFull /\ [][Next]_vars

\* C15: there is exactly one output record per route; a route of k legs fills leg slots
\* 1..k with its legs in chronological order, leg slots k+1..maxLegs are null and the
\* airport slots after slot k+1 are null.
C15_OneRecordPerRoute ==
    Done =>
      /\ Len(out) = Len(row_routes)
      /\ \A r \in 1..Len(out) :
           LET k == Len(row_routes[r])
           IN  /\ Len(out[r].fn) = NumLegs(script)
               /\ Len(out[r].dt) = NumLegs(script)
               /\ Len(out[r].ap) = NumLegs(script) + 1
               /\ \A i \in 1..k :
                    /\ out[r].fn[i] = row_routes[r][i].fn
                    /\ out[r].dt[i] = <<row_routes[r][i].dt>>
               /\ \A i \in 1..(k - 1) : out[r].dt[i][1] <= out[r].dt[i + 1][1]
               /\ \A i \in (k + 1)..NumLegs(script) :
                    out[r].fn[i] = NullStr /\ out[r].dt[i] = NaT
               /\ \A i \in (k + 2)..(NumLegs(script) + 1) : out[r].ap[i] = NoneAp

\* a row with a route that fills every leg slot of its record
FullRecord == Done /\ \E r \in 1..Len(out) : FilledSlots(out[r]) = 1..NumLegs(script)

\* a row of two routes, one of them with three legs or more, whose records have null slots
C15_Witness ==
    /\ Done
    /\ Len(out) = 2
    /\ \E r \in 1..2 : Len(row_routes[r]) >= 3 /\ out[r].fn[NumLegs(script)] = NullStr

\* the legs of a list of routes, route after route
RECURSIVE Flatten(_)
Flatten(rs) == IF rs = <<>> THEN <<>> ELSE Head(rs) \o Flatten(Tail(rs))

\* the places (record, slot) of out that hold the leg f
PlacesInRecords(f) ==
    {p \in (1..Len(out)) \X (1..NumLegs(script)) :
        out[p[1]].fn[p[2]] = f.fn /\ out[p[1]].dt[p[2]] = <<f.dt>>}

\* the places (route, position) of row_routes that hold the leg f
PlacesInRoutes(f) ==
    {p \in (1..Len(row_routes)) \X (1..NumLegs(script)) :
        p[2] <= Len(row_routes[p[1]]) /\ row_routes[p[1]][p[2]] = f}

\* C16: every leg that survives validation and deduplication is in exactly one route and
\* in exactly one output record, the route in progress at the end included; no route is
\* empty; no record holds a leg that was not a valid leg of the row; no route has more
\* legs than the record has leg slots.
C16_LegsPartitionedIntoRecords ==
    Done =>
      /\ Flatten(row_routes) = row_flights
      /\ \A i \in 1..Len(row_flights) :
           /\ Cardinality(PlacesInRoutes(row_flights[i])) = 1
           /\ Cardinality(PlacesInRecords(row_flights[i])) = 1
      /\ \A r \in 1..Len(row_routes) :
           /\ row_routes[r] # <<>>
           /\ Len(row_routes[r]) <= NumLegs(script)
      /\ \A r \in 1..Len(out) : \A j \in FilledSlots(out[r]) :
           \E i \in 1..Len(row_valid) :
             row_valid[i].fn = out[r].fn[j] /\ <<row_valid[i].dt>> = out[r].dt[j]

\* a row whose leg columns all survive and form one route that fills every leg slot
C16_Witness ==
    /\ Done
    /\ \/ script = "tripjack" /\ Len(row_routes) = 1 /\ Len(row_routes[1]) = TRIPJACK_LEGS
       \/ script = "bluestar" /\ Len(row_routes) = 1 /\ Len(row_routes[1]) = BLUESTAR_LEGS

----------------------------------------------------------------------------
(* process_batch run twice over one batch.                                 *)

\* process_batch is called once more with the same offset: the view's row is read again
\* and its records are inserted into the target table as the first call left it
Rerun ==
    /\ pc = "done"
    /\ target_once = <<>>
    /\ target_once' = <<target>>
    /\ pc' = "viewed"
    /\ UNCHANGED <<script, src, view, row_valid, row_flights, row_routes, out, target, again, df_out, loop>>

NextRerun ==
    \/ Next
    \/ Rerun

SpecRerun == InitFull /\ [][NextRerun]_vars

RanTwice == Done /\ target_once # <<>>

\* C18 as stated: after process_batch has run twice over the same batch the target table
\* holds the same records as after the first run, records with null slots included.
C18_RerunLeavesTargetUnchanged == RanTwice => target = target_once[1]

\* the part that holds: a record with no null in its key columns is not inserted twice
RerunKeepsFullRecordsOnce ==
    RanTwice =>
      \A i, j \in 1..Len(target) :
        (i # j /\ ~KeyHasNull(target[i])) => NaturalKey(target[i]) # NaturalKey(target[j])

----------------------------------------------------------------------------
(* test_sql_main.py: process_batch as one SQL statement over a batch of rows. *)

\* MACRO normalize_flight(flight): '^([A-Z]{2,3})0+([0-9]+)$' rewritten to '\1\2' on
\* UPPER(TRIM(flight)); 0+ gives back zeros until [0-9]+ has a digit
normalize_flight(flight) ==
    IF IsNullStr(flight) THEN NullStr
    ELSE LET f == StrUpper(StrTrim(flight))
             ks == {k \in {2, 3} : /\ k < Len(f)
                                    /\ AllUpper(SubSeq(f, 1, k))
                                    /\ AllDigits(SubSeq(f, k + 1, Len(f)))}
         IN  IF ks = {} THEN f
             ELSE LET k == CHOOSE j \in ks : TRUE
                      rest == SubSeq(f, k + 1, Len(f))
                  IN  SubSeq(f, 1, k)
                        \o SubSeq(rest, Min(LeadingZeros(rest), Len(rest) - 1) + 1, Len(rest))

\* MACRO normalize_date(dt): NULL unless TRY_CAST gives a timestamp whose YEAR lies in
\* [VALID_YEAR_MIN, VALID_YEAR_MAX]
normalize_date_macro(dt) ==
    LET d == TryCastTimestamp(dt)
    IN  IF d = NaT THEN NaT
        ELSE IF d[1] < WindowStart \/ d[1] >= WindowEnd + TicksPerDay THEN NaT
        ELSE d

\* MACRO is_rnk(flight): right(flight, 3) = '000'
is_rnk_macro(flight) ==
    /\ ~IsNullStr(flight)
    /\ SubSeq(flight, Len(flight) - Min(Len(flight), 3) + 1, Len(flight)) = <<"0", "0", "0">>

\* unpivoted: one row per leg column i of each row r of the batch with
\* TRIM(FlightNumber_i) <> ''; rowid stands for the row's place in the table
unpivoted(batch) ==
    {[rowid |-> r,
      PaxName |-> batch[r].base.pax, BookingRef |-> batch[r].base.ref,
      ETicketNo |-> batch[r].base.ticket, ClientCode |-> batch[r].base.client,
      Airline |-> batch[r].base.airline, JourneyType |-> batch[r].base.journey,
      FlightNumber |-> batch[r].fn[i], DepartureDate |-> batch[r].dt[i],
      DepAir |-> batch[r].ap[i], ArrAir |-> batch[r].ap[i + 1], OriginalSeq |-> i] :
        <<r, i>> \in {p \in (1..Len(batch)) \X (1..TBO_LEGS) :
                        /\ ~IsNullStr(batch[p[1]].fn[p[2]])
                        /\ StrTrim(batch[p[1]].fn[p[2]]) # <<>>}}

\* cleaned: ETicketNo is not selected
cleaned(batch) ==
    {[rowid |-> u.rowid,
      PaxName |-> u.PaxName, BookingRef |-> u.BookingRef, ClientCode |-> u.ClientCode,
      Airline |-> u.Airline, JourneyType |-> u.JourneyType,
      clean_flt |-> normalize_flight(u.FlightNumber),
      clean_dte |-> normalize_date_macro(u.DepartureDate),
      DepAir |-> u.DepAir, ArrAir |-> u.ArrAir, OriginalSeq |-> u.OriginalSeq] :
        u \in unpivoted(batch)}

\* filtered
filtered(batch) ==
    {c \in cleaned(batch) :
        ~IsNullStr(c.clean_flt) /\ c.clean_dte # NaT /\ ~is_rnk_macro(c.clean_flt)}

\* ORDER BY OriginalSeq: a comes before b; rows of the batch with the same OriginalSeq
\* come in table order or in the reverse order (rev), which SQL leaves open
Before(a, b, rev) ==
    \/ a.OriginalSeq < b.OriginalSeq
    \/ /\ a.OriginalSeq = b.OriginalSeq
       /\ IF rev THEN a.rowid > b.rowid ELSE a.rowid < b.rowid

\* PARTITION BY BookingRef, PaxName
SamePartition(a, b) == a.BookingRef = b.BookingRef /\ a.PaxName = b.PaxName

\* deduped ... WHERE rn = 1, over the rows f of filtered: the first row of each
\* (BookingRef, PaxName, clean_dte)
deduped(f, rev) ==
    {c \in f : ~\E b \in f : SamePartition(b, c) /\ b.clean_dte = c.clean_dte /\ Before(b, c, rev)}

\* with_prev, over the rows d of deduped with rn = 1: LAG(clean_dte) of row c in its
\* partition, NULL for the first row
prev_dte(d, rev, c) ==
    LET before == {b \in d : SamePartition(b, c) /\ Before(b, c, rev)}
    IN  IF before = {} THEN NaT
        ELSE (CHOOSE b \in before : \A x \in before : x = b \/ Before(x, b, rev)).clean_dte

\* with_trip_id: the CASE that opens a trip; the gap is compared in hours
OpensTrip(d, rev, c) ==
    LET p == prev_dte(d, rev, c)
    IN  \/ p = NaT
        \/ c.clean_dte[1] < p[1]
        \/ (c.clean_dte[1] - p[1]) * 24 > 36 * TicksPerDay

\* with_trip_id: SUM(...) OVER (... ROWS UNBOUNDED PRECEDING); lag is the order the
\* window of with_prev took among equal OriginalSeq, rev the order of this window
trip_id(d, lag, rev, c) ==
    Cardinality({b \in d : /\ SamePartition(b, c)
                           /\ (b = c \/ Before(b, c, rev))
                           /\ OpensTrip(d, lag, b)})

\* GROUP BY PaxName, BookingRef, trip_id: the groups of the rows d
Groups(d, lag, rev) ==
    LET tid == [c \in d |-> trip_id(d, lag, rev, c)]
    IN  {{b \in d : SamePartition(b, c) /\ tid[b] = tid[c]} : c \in d}

\* sequenced: ROW_NUMBER() of row c within its trip g
seq_id(g, rev, c) == 1 + Cardinality({b \in g : Before(b, c, rev)})

\* pivoted and the final SELECT for one group g: slot k holds the row with seq_id = k;
\* ANY_VALUE takes its value from a row of g that came from table row pick if there is
\* one (any row of the group may supply it); ETicketNo is NULL
pivoted(g, rev, pick) ==
    LET sid == [c \in g |-> seq_id(g, rev, c)]
        has(k) == \E c \in g : sid[c] = k
        at(k) == CHOOSE c \in g : sid[c] = k
        any == IF \E c \in g : c.rowid = pick
               THEN CHOOSE c \in g : c.rowid = pick
               ELSE CHOOSE c \in g : TRUE
        one == CHOOSE c \in g : TRUE
    IN  [base |-> [pax |-> one.PaxName, ref |-> one.BookingRef, ticket |-> NoneAp,
                   client |-> any.ClientCode, airline |-> any.Airline,
                   journey |-> any.JourneyType],
         fn |-> [k \in 1..TBO_LEGS |-> IF has(k) THEN at(k).clean_flt ELSE NullStr],
         dt |-> [k \in 1..TBO_LEGS |-> IF has(k) THEN at(k).clean_dte ELSE NaT],
         ap |-> [k \in 1..(TBO_LEGS + 1) |->
                   IF k = 1 THEN IF has(1) THEN at(1).DepAir ELSE NoneAp
                   ELSE IF has(k - 1) THEN at(k - 1).ArrAir ELSE NoneAp]]

\* the order each window takes among rows with the same OriginalSeq (rows of the batch
\* that share BookingRef and PaxName): every ORDER BY OriginalSeq sorts on its own
TieOrders == [dedup : BOOLEAN, lag : BOOLEAN, sum : BOOLEAN, seq : BOOLEAN]

\* the rows the statement inserts for the batch
SqlRecords(batch, ties, pick) ==
    {pivoted(g, ties.seq, pick) :
        g \in Groups(deduped(filtered(batch), ties.dedup), ties.lag, ties.sum)}

\* the elements of a finite set as a sequence
RECURSIVE SeqOfSet(_)
SeqOfSet(S) ==
    IF S = {} THEN <<>> ELSE LET x == CHOOSE y \in S : TRUE IN <<x>> \o SeqOfSet(S \ {x})

\* test_sql_main process_batch on the batch: INSERT INTO target WITH ... SELECT
SqlProcessBatch ==
    /\ pc = "raw"
    /\ script = "test_sql_main"
    /\ \E ties \in TieOrders, pick \in 1..Len(src) :
         LET f == filtered(src)
             d == deduped(f, ties.dedup)
             gs == Groups(d, ties.lag, ties.sum)
         IN  /\ row_valid' = f
             /\ row_flights' = d
             /\ row_routes' = gs
             /\ out' = SeqOfSet({pivoted(g, ties.seq, pick) : g \in gs})
             /\ target' = target \o out'
    /\ pc' = "done"
    /\ UNCHANGED <<script, src, view, again, target_once, df_out, loop>>

\* the booking attributes of a row of TBO3_MASTER
SqlBase(pax, client) ==
    [pax |-> pax, ref |-> "R1", ticket |-> "T1", client |-> client, airline |-> "TK",
     journey |-> "J1"]

\* a populated leg column: two flight numbers at one timestamp, one of them 12 hours
\* later, and a leg two days after the first
SqlLegChoices ==
    {[fn |-> Str_AI9, dt |-> <<0>>], [fn |-> Str_TK0006, dt |-> <<0>>],
     [fn |-> Str_AI9, dt |-> <<1>>], [fn |-> Str_TK0006, dt |-> <<2 * TicksPerDay>>]}

\* leg columns populated in the rows of a batch
SqlPresent == 3

\* the rows with the first n leg columns absent or one of SqlLegChoices, the rest absent
SqlRows(pax, client, n) ==
    {[base |-> SqlBase(pax, client),
      fn |-> [i \in 1..TBO_LEGS |-> IF i <= n THEN c[i].fn ELSE NullStr],
      dt |-> [i \in 1..TBO_LEGS |-> IF i <= n THEN c[i].dt ELSE NaT],
      ap |-> Airports(TBO_LEGS)] : c \in [1..n -> SqlLegChoices \cup {AbsentLeg}]}

\* batches of one row, or of two rows the second of which has the same or another
\* passenger and client code than the first; n leg columns are populated in the first row
SqlBatches(n) ==
    {<<r>> : r \in SqlRows("P1", "c1", n)}
      \cup UNION {{<<r1, r2>> : r1 \in SqlRows("P1", "c1", n), r2 \in SqlRows(p, c, n - 1)} :
                     <<p, c>> \in {"P1", "P2"} \X {"c1", "c2"}}

InitSql ==
    /\ InitCommon
    /\ script = "test_sql_main"
    /\ src \in SqlBatches(SqlPresent)

NextSql == SqlProcessBatch

SpecSql == InitSql /\ [][NextSql]_vars

----------------------------------------------------------------------------
(* Properties of the SQL pipeline.                                         *)

SqlDone == Done /\ script = "test_sql_main"

\* C17 as stated: the booking attributes of every output record (passenger name,
\* booking reference, ticket number, airline, client, journey type) are those of an
\* input row.
C17_BookingAttributesPreserved ==
    SqlDone => \A k \in 1..Len(out) : \E r \in 1..Len(src) : out[k].base = src[r].base

\* what holds for a batch of one row: every attribute but the ticket number is the row's
SqlKeepsAttributesButTicket ==
    (SqlDone /\ Len(src) = 1) =>
      \A k \in 1..Len(out) : out[k].base = [src[1].base EXCEPT !.ticket = NoneAp]

\* bluestar and tripjack copy the row's attributes into every record
PythonKeepsAttributes ==
    (Done /\ script \in Scripts) => \A k \in 1..Len(out) : out[k].base = src.base

\* the records of the batch's rows, each row processed in a batch of its own
RecordsRowByRow ==
    UNION {SqlRecords(<<src[r]>>, CHOOSE t \in TieOrders : TRUE, 1) : r \in 1..Len(src)}

\* C19 as stated: the records of a booking row depend on that row only: the batch gives
\* the records its rows give one by one, whatever the other rows of the batch are.
C19_RecordsDependOnlyOnOwnRow ==
    SqlDone => {out[k] : k \in 1..Len(out)} = RecordsRowByRow

\* what holds: rows that differ in passenger name or booking reference do not
\* influence each other
RowsOfOtherBookingsIndependent ==
    (SqlDone /\ \A r, q \in 1..Len(src) :
                   r # q => <<src[r].base.pax, src[r].base.ref>> # <<src[q].base.pax, src[q].base.ref>>)
      => {out[k] : k \in 1..Len(out)} = RecordsRowByRow

\* C20 as stated: a leg is dropped as a duplicate only if another leg of the same
\* booking, earlier in position, has the same normalized flight number and the same
\* calendar day.
C20_DroppedOnlyForSameFlightAndDay ==
    SqlDone =>
      \A c \in row_valid \ row_flights :
        \E b \in row_valid :
          /\ SamePartition(b, c)
          /\ b # c
          /\ b.OriginalSeq <= c.OriginalSeq
          /\ b.clean_flt = c.clean_flt
          /\ DateOf(b.clean_dte[1]) = DateOf(c.clean_dte[1])

\* what holds: a leg is dropped only if another leg of the same passenger and booking
\* reference has the same timestamp
DroppedOnlyForSameTimestamp ==
    SqlDone =>
      \A c \in row_valid \ row_flights :
        \E b \in row_flights : SamePartition(b, c) /\ b.clean_dte = c.clean_dte

----------------------------------------------------------------------------
(* Properties of the anchor of a route.                                    *)

\* C21: under the fixed-start policy every leg of a route is within one day of the
\* route's first leg, so the first and the last leg of a route are at most one day apart.
C21_RouteWithinOneDayOfItsStart ==
    (Done /\ script \in Scripts) =>
      \A r \in 1..Len(row_routes) :
        /\ \A i \in 1..Len(row_routes[r]) :
             Abs(row_routes[r][i].dt - row_routes[r][1].dt) <= OneDay
        /\ row_routes[r][Len(row_routes[r])].dt - row_routes[r][1].dt <= OneDay
        /\ row_routes[r][Len(row_routes[r])].dt - row_routes[r][1].dt >= 0

\* a route of three legs at three different times that spans exactly one day
C21_Witness ==
    /\ Done
    /\ script \in Scripts
    /\ Len(row_routes) >= 1
    /\ Len(row_routes[1]) = 3
    /\ row_routes[1][3].dt - row_routes[1][1].dt = OneDay
    /\ row_routes[1][2].dt > row_routes[1][1].dt
    /\ row_routes[1][3].dt > row_routes[1][2].dt

----------------------------------------------------------------------------
(* tbo3_claude.py: split_into_routes on a list of legs.                    *)

\* variant of is_same_route: the difference is taken without abs
is_same_route_36h_Signed(date1, date2) ==
    IF date1 = NaT \/ date2 = NaT THEN FALSE
    ELSE (date2[1] - date1[1]) * 24 <= 36 * TicksPerDay

\* is_same_route(date1, date2): abs(date2 - date1) <= timedelta(hours=36), False when a
\* date is None; a tick is 24 / TicksPerDay hours
is_same_route_36h(date1, date2) ==
    IF date1 = NaT \/ date2 = NaT THEN FALSE
    ELSE Abs(date2[1] - date1[1]) * 24 <= 36 * TicksPerDay

\* the loop of split_into_routes over the flights left, with the routes closed so far
\* and current_route; the last route is appended if it is not empty
RECURSIVE SplitLoop(_, _, _)
SplitLoop(rest, routes, current_route) ==
    IF rest = <<>>
    THEN IF current_route # <<>> THEN Append(routes, current_route) ELSE routes
    ELSE LET flight == Head(rest)
         IN  IF current_route = <<>>
             THEN SplitLoop(Tail(rest), routes, <<flight>>)
             ELSE IF is_same_route_36h(current_route[Len(current_route)].dt, flight.dt)
             THEN SplitLoop(Tail(rest), routes, Append(current_route, flight))
             ELSE SplitLoop(Tail(rest), Append(routes, current_route), <<flight>>)

\* split_into_routes(flights)
split_into_routes(flights) == IF flights = <<>> THEN <<>> ELSE SplitLoop(flights, <<>>, <<>>)

\* longest list of legs given to split_into_routes
SplitMaxLegs == 4

\* the lists of n legs in any order of dates, a leg without a date among them
FlightLists(n) ==
    {[i \in 1..n |-> [fn |-> Str_AI9, dt |-> d[i],
                      dep |-> AirportNames[i], arr |-> AirportNames[i + 1]]] :
        d \in [1..n -> {NaT} \cup {<<t>> : t \in 0..(MaxTick + 1)}]}

InitSplit ==
    /\ InitCommon
    /\ script = "tbo3_claude"
    /\ \E n \in 0..SplitMaxLegs : src \in FlightLists(n)

\* the call routes = split_into_routes(flights)
SplitIntoRoutes ==
    /\ pc = "raw"
    /\ script = "tbo3_claude"
    /\ row_flights' = src
    /\ row_routes' = split_into_routes(src)
    /\ pc' = "done"
    /\ UNCHANGED <<script, src, view, row_valid, out, target, again, target_once, df_out, loop>>

NextSplit == SplitIntoRoutes

SpecSplit == InitSplit /\ [][NextSplit]_vars

\* two dates are there and at most 36 hours apart
Within36Hours(a, b) == a # NaT /\ b # NaT /\ Abs(b[1] - a[1]) * 24 <= 36 * TicksPerDay

\* C22: split_into_routes returns non-empty routes whose concatenation is the input list
\* in input order; every leg of a route is within 36 hours of the leg before it, and the
\* first leg of every later route is more than 36 hours from the last leg of the route
\* before it, or one of the two has no date.
C22_ChainSplit ==
    (Done /\ script = "tbo3_claude") =>
      /\ Flatten(row_routes) = src
      /\ \A r \in 1..Len(row_routes) :
           /\ row_routes[r] # <<>>
           /\ \A i \in 2..Len(row_routes[r]) :
                Within36Hours(row_routes[r][i - 1].dt, row_routes[r][i].dt)
      /\ \A r \in 2..Len(row_routes) :
           ~Within36Hours(row_routes[r - 1][Len(row_routes[r - 1])].dt, row_routes[r][1].dt)

\* a list split in two routes, the first with a leg earlier than the leg before it, the
\* second opened by a leg more than 36 hours later
C22_Witness ==
    /\ Done
    /\ script = "tbo3_claude"
    /\ Len(row_routes) = 2
    /\ Len(row_routes[1]) >= 2
    /\ row_routes[1][2].dt[1] < row_routes[1][1].dt[1]
    /\ row_routes[2][1].dt # NaT

----------------------------------------------------------------------------
(* Rows with a corrupted numeric flight number, tripjack.                  *)

\* the flight number of column i is all digits and longer than tripjack's MAX_FLTNO_DIGITS
TripjackOversizedNumeric(i) ==
    /\ ~IsNullStr(Cleaned.fn[i])
    /\ IsDigitStr(StrTrim(Cleaned.fn[i]))
    /\ Len(StrTrim(Cleaned.fn[i])) > MAX_FLTNO_DIGITS_TRIPJACK

\* C23 as stated: a tripjack row with an all-digit flight number longer than
\* MAX_FLTNO_DIGITS yields no output record, even if its other legs are valid.
C23_TripjackOversizedDropsRow ==
    (Done /\ script = "tripjack" /\ \E i \in Columns : TripjackOversizedNumeric(i))
      => out = <<>>

\* what tripjack does: the oversized leg alone is left out, and the row yields no
\* record only when no other column holds a valid leg
TripjackOversizedDropsLegOnly ==
    (Done /\ script = "tripjack" /\ \E i \in Columns : TripjackOversizedNumeric(i))
      => /\ out = <<>> <=> \A i \in Columns : ~ValidLeg(i)
         /\ \A e \in EmittedLegs : ~IsDigitStr(e[1])

----------------------------------------------------------------------------
(* Placeholder flight numbers.                                             *)

\* the flight number the leg check of column 1 works on
CheckedFn == StrUpper(StrTrim(Cleaned.fn[1]))

\* what is left of it before its trailing zeros
CodeBeforeZeros == RStripZeros(CheckedFn)

\* the flight number is a placeholder: zeros only, or an airline code of 2 or 3
\* letters and digits that ends in a letter, followed by zeros only
IsPlaceholder ==
    /\ ~IsNullStr(Cleaned.fn[1])
    /\ Len(CodeBeforeZeros) < Len(CheckedFn)
    /\ \/ CodeBeforeZeros = <<>>
       \/ /\ Len(CodeBeforeZeros) \in {2, 3}
          /\ AllAlnum(CodeBeforeZeros)
          /\ CodeBeforeZeros[Len(CodeBeforeZeros)] \in UpperLetters

\* C24 as stated: a flight number whose numeric part is zeros only is never accepted as
\* a leg, for every airline-code shape the shape check [A-Z0-9]{2,3}\d+ admits.
C24_PlaceholderNeverAccepted == (FirstPass /\ IsPlaceholder) => Rejected

\* what the trailing-zero check catches: the placeholders whose code has letters only
LetterCodePlaceholderRejected ==
    (FirstPass /\ IsPlaceholder /\ AllUpper(CodeBeforeZeros)) => Rejected

----------------------------------------------------------------------------
(* bluestar: a batch of several rows and the batch merge.                  *)

\* the columns of the target table, in the order of CREATE TABLE
TableColumns ==
    <<"BillDate", "PaxName", "PNRNo", "AirlineName", "TicketNo",
      "FltNo1", "FltNo2", "FltNo3", "FltNo4",
      "FltDate1", "FltDate2", "FltDate3", "FltDate4",
      "SupplierName", "PaxType",
      "Airport1", "Airport2", "Airport3", "Airport4", "Airport5">>

\* the columns of CONSTRAINT uq_bluestar UNIQUE (...)
UniqueConstraint ==
    {"PNRNo", "AirlineName", "TicketNo", "FltNo1", "FltNo2", "FltNo3", "FltNo4",
     "FltDate1", "FltDate2", "FltDate3", "FltDate4",
     "Airport1", "Airport2", "Airport3", "Airport4", "Airport5"}

\* base1 + fn_out + dt_out + base2 + ap_out: what each position of an out_rows entry
\* holds, INSERT ... SELECT * being positional
RowLayout ==
    <<"BillDate", "PaxName", "PNRNo", "AirlineName", "TicketNo">>
      \o <<"FltNo1", "FltNo2", "FltNo3", "FltNo4">>
      \o <<"FltDate1", "FltDate2", "FltDate3", "FltDate4">>
      \o <<"SupplierName", "PaxType">>
      \o <<"Airport1", "Airport2", "Airport3", "Airport4", "Airport5">>

\* unique_indices = [2, 3, 4] + list(range(5, 13)) + list(range(15, 20)), 0-based
unique_indices == {2, 3, 4} \cup (5..12) \cup (15..19)

\* the columns drop_duplicates compares
KeyColumns == {RowLayout[i + 1] : i \in unique_indices}

\* rows of a batch: the attributes outside the key and the ticket number vary
BatchBase(other, ticket) == [pnr |-> "P1", airline |-> "TK", ticket |-> ticket, other |-> other]

\* legs of the rows of a batch: two flights more than a day apart
BatchLegChoices == {[fn |-> Str_AI9, dt |-> <<0>>], [fn |-> Str_TK0006, dt |-> <<MaxTick>>]}

\* the rows of a batch: the first two leg columns absent or populated, the rest absent
BatchRows ==
    {[base |-> BatchBase(o, t),
      fn |-> [i \in 1..BLUESTAR_LEGS |-> IF i <= 2 THEN c[i].fn ELSE NullStr],
      dt |-> [i \in 1..BLUESTAR_LEGS |-> IF i <= 2 THEN c[i].dt ELSE NaT],
      ap |-> Airports(BLUESTAR_LEGS)] :
        o \in {"x", "y"}, t \in {"T1", "", NoneAp},
        c \in [1..2 -> BatchLegChoices \cup {AbsentLeg}]}

\* rows in a batch
BatchSize == 2

\* cleaned_source for the rows of the source table
RECURSIVE CleanedBatch(_)
CleanedBatch(rows) ==
    IF rows = <<>> THEN <<>>
    ELSE CleanedSource(Head(rows), "bluestar") \o CleanedBatch(Tail(rows))

\* bluestar after create_clean_view, with a batch of rows in the source table
InitBatch ==
    /\ script = "bluestar"
    /\ \E n \in 1..BatchSize : src \in [1..n -> BatchRows]
    /\ view = CleanedBatch(src)
    /\ row_valid = <<>>
    /\ row_flights = <<>>
    /\ row_routes = <<>>
    /\ out = <<>>
    /\ df_out = <<>>
    /\ loop = NoLoop
    /\ target = <<>>
    /\ pc = "viewed"
    /\ again = NullStr
    /\ target_once = <<>>

NextBatch == BluestarProcessBatch

SpecBatch == InitBatch /\ [][NextBatch]_vars

\* out_rows after df_out.replace("", None)
Replaced == [k \in 1..Len(out) |-> ReplaceEmpty(out[k])]

\* the natural key of a record, column by column
KeyOf(rec) ==
    <<rec.base.pnr, rec.base.airline, rec.base.ticket>> \o rec.fn \o rec.dt \o rec.ap

\* the positions of out_rows no earlier record of which has the same natural key
FirstOfKey == {k \in 1..Len(out) : \A j \in 1..(k - 1) : KeyOf(Replaced[j]) # KeyOf(Replaced[k])}

\* C25: after drop_duplicates no two records handed to the insert share the natural key
\* (PNRNo, AirlineName, TicketNo, FltNo1-4, FltDate1-4, Airport1-5); a record is removed
\* only if an earlier record of the batch has the same key; the columns compared are
\* exactly the columns of the table's UNIQUE constraint.
C25_MergeKeepsFirstOfEachKey ==
    (Done /\ script = "bluestar") =>
      /\ \A i, j \in 1..Len(df_out) : i # j => KeyOf(df_out[i]) # KeyOf(df_out[j])
      /\ Len(df_out) = Cardinality(FirstOfKey)
      /\ \A k \in FirstOfKey : \E i \in 1..Len(df_out) : df_out[i] = Replaced[k]
      /\ \A i \in 1..Len(df_out) : \E k \in FirstOfKey : df_out[i] = Replaced[k]
      /\ RowLayout = TableColumns
      /\ KeyColumns = UniqueConstraint

\* the second row of the batch gave a record with the key of a record of the first row,
\* with other attributes outside the key, and the merge removed it
C25_Witness ==
    /\ Done
    /\ script = "bluestar"
    /\ Len(src) = 2
    /\ src[1].base.other # src[2].base.other
    /\ Len(out) >= 3
    /\ Len(df_out) < Len(out)

----------------------------------------------------------------------------
(* Trips of the SQL pipeline.                                              *)

\* the dates in the leg slots of record rec are non-decreasing and adjacent filled slots
\* are at most 36 hours apart
SlotsChained(rec) ==
    \A i \in 1..(TBO_LEGS - 1) :
      (rec.dt[i] # NaT /\ rec.dt[i + 1] # NaT) =>
        /\ rec.dt[i][1] <= rec.dt[i + 1][1]
        /\ (rec.dt[i + 1][1] - rec.dt[i][1]) * 24 <= 36 * TicksPerDay

\* C26 as stated: within every trip the SQL pipeline emits, the dates in slots 1..7 are
\* non-decreasing and every two adjacent legs are at most 36 hours apart.
C26_TripsChained == SqlDone => \A k \in 1..Len(out) : SlotsChained(out[k])

\* what holds: the trips are chained when no two rows of the batch share BookingRef and
\* PaxName, so that OriginalSeq orders the legs of every partition
TripsChainedWithoutSharedBooking ==
    (SqlDone /\ \A r, q \in 1..Len(src) :
                   r # q => <<src[r].base.pax, src[r].base.ref>> # <<src[q].base.pax, src[q].base.ref>>)
      => \A k \in 1..Len(out) : SlotsChained(out[k])

-----------------------------------------------------------------------------
(* tripjack_airports.py: the split of the round-trip rows of TRIPJACK_TARGET. *)

\* rows TRIPJACK_TARGET holds when process_airports is called
AirportsMaxRows == 2

\* WHERE Airport1 = Airport3 AND Airport4 IS NULL AND Airport5 IS NULL (a comparison
\* with NULL is not true)
FullRowWhere(r) ==
    /\ r.ap[1] # NoneAp
    /\ r.ap[3] # NoneAp
    /\ r.ap[1] = r.ap[3]
    /\ r.ap[4] = NoneAp
    /\ r.ap[5] = NoneAp

\* the column list of a SELECT of separate_and_inserts for leg i of row r
SplitRow(r, bucket, i) ==
    [base |-> [r.base EXCEPT !.bucket = bucket],
     fn |-> [k \in 1..TRIPJACK_LEGS |-> IF k = 1 THEN r.fn[i] ELSE NullStr],
     dt |-> [k \in 1..TRIPJACK_LEGS |-> IF k = 1 THEN r.dt[i] ELSE NaT],
     ap |-> [k \in 1..(TRIPJACK_LEGS + 1) |->
                IF k = 1 THEN r.ap[i] ELSE IF k = 2 THEN r.ap[i + 1] ELSE NoneAp]]

\* the first SELECT of separate_and_inserts
Outbound(r) == SplitRow(r, "OUTBOUND", 1)

\* the second SELECT of separate_and_inserts
Inbound(r) == SplitRow(r, "INBOUND", 2)

\* the rows the INSERT of separate_and_inserts adds, read from table
separate_and_inserts(table) ==
    LET full == SelectSeq(table, FullRowWhere)
    IN  [k \in 1..Len(full) |-> Outbound(full[k])] \o [k \in 1..Len(full) |-> Inbound(full[k])]

\* variant of delete_full_rows: the WHERE without Airport1 = Airport3
delete_full_rows_NoAirportTest(table) ==
    LET Keep(r) == ~(r.ap[4] = NoneAp /\ r.ap[5] = NoneAp)
    IN  SelectSeq(table, Keep)

\* the table after the DELETE of delete_full_rows
delete_full_rows(table) ==
    LET Keep(r) == ~FullRowWhere(r)
    IN  SelectSeq(table, Keep)

\* uq_tripjack rejects the rows recs for the table: a row without NULL in the key
\* columns that repeats the key of a row of the table or of an earlier row of recs
UniqueViolated(table, recs) ==
    \E k \in 1..Len(recs) :
      /\ ~KeyHasNull(recs[k])
      /\ \/ \E j \in 1..Len(table) : NaturalKey(table[j]) = NaturalKey(recs[k])
         \/ \E j \in 1..(k - 1) : NaturalKey(recs[j]) = NaturalKey(recs[k])

\* a row of TRIPJACK_TARGET with two legs: round trips (Airport3 = Airport1), open
\* jaws, rows with Airport1 or Airport3 NULL, rows with a third airport column filled
AirportsRows ==
    {[base |-> [pnr |-> "P1", airline |-> "TK", ticket |-> "T1", other |-> o, bucket |-> "FULL"],
      fn |-> <<Str_AI9, Str_TK0006, NullStr, NullStr, NullStr>>,
      dt |-> <<<<0>>, <<MaxTick>>, NaT, NaT, NaT>>,
      ap |-> <<a1, "a2", a3, a4, NoneAp, NoneAp>>] :
        o \in {"x", "y"}, a1 \in {"a1", NoneAp}, a3 \in {"a1", "a3", NoneAp},
        a4 \in {"a4", NoneAp}}

\* the tables of n rows
AirportsTables(n) == [1..n -> AirportsRows]

InitAirports ==
    /\ script = "tripjack_airports"
    /\ \E n \in 0..AirportsMaxRows : target \in AirportsTables(n)
    /\ src = target
    /\ view = <<>>
    /\ row_valid = <<>>
    /\ row_flights = <<>>
    /\ row_routes = <<>>
    /\ out = <<>>
    /\ df_out = <<>>
    /\ loop = NoLoop
    /\ pc = "raw"
    /\ again = NullStr
    /\ target_once = <<>>

\* con.execute("BEGIN TRANSACTION;")
BeginTransaction ==
    /\ pc = "raw"
    /\ script = "tripjack_airports"
    /\ view' = target
    /\ pc' = "begun"
    /\ UNCHANGED <<script, src, row_valid, row_flights, row_routes, out, target, again, target_once, df_out, loop>>

\* con.execute(separate_and_inserts(con))
ExecuteInserts ==
    /\ pc = "begun"
    /\ script = "tripjack_airports"
    /\ ~UniqueViolated(view, separate_and_inserts(view))
    /\ out' = separate_and_inserts(view)
    /\ view' = view \o separate_and_inserts(view)
    /\ pc' = "inserted"
    /\ UNCHANGED <<script, src, row_valid, row_flights, row_routes, target, again, target_once, df_out, loop>>

\* con.execute(delete_full_rows(con))
ExecuteDelete ==
    /\ pc = "inserted"
    /\ script = "tripjack_airports"
    /\ view' = delete_full_rows(view)
    /\ pc' = "deleted"
    /\ UNCHANGED <<script, src, row_valid, row_flights, row_routes, out, target, again, target_once, df_out, loop>>

\* con.execute("COMMIT;")
Commit ==
    /\ pc = "deleted"
    /\ script = "tripjack_airports"
    /\ target' = view
    /\ pc' = "done"
    /\ UNCHANGED <<script, src, view, row_valid, row_flights, row_routes, out, again, target_once, df_out, loop>>

\* a statement of the try block raises: the except block rolls the transaction back
Rollback ==
    /\ pc \in {"raw", "begun", "inserted", "deleted"}
    /\ script = "tripjack_airports"
    /\ view' = <<>>
    /\ pc' = "rolled_back"
    /\ UNCHANGED <<script, src, row_valid, row_flights, row_routes, out, target, again, target_once, df_out, loop>>

NextAirports == BeginTransaction \/ ExecuteInserts \/ ExecuteDelete \/ Commit \/ Rollback

SpecAirports == InitAirports /\ [][NextAirports]_vars

\* the number of rows of table equal to r
CountRows(table, r) == Cardinality({k \in 1..Len(table) : table[k] = r})

\* the table holds, for the rows of src: every row that is not a round trip as often as
\* src holds it, no round-trip row, and one OUTBOUND and one INBOUND row per round-trip
\* row
SplitComplete(table) ==
    /\ \A k \in 1..Len(table) : ~FullRowWhere(table[k])
    /\ \A k \in 1..Len(src) :
         ~FullRowWhere(src[k]) => CountRows(table, src[k]) = CountRows(src, src[k])
    /\ \A k \in 1..Len(src) :
         FullRowWhere(src[k]) =>
           /\ CountRows(table, Outbound(src[k])) =
                Cardinality({j \in 1..Len(src) : FullRowWhere(src[j]) /\ Outbound(src[j]) = Outbound(src[k])})
           /\ CountRows(table, Inbound(src[k])) =
                Cardinality({j \in 1..Len(src) : FullRowWhere(src[j]) /\ Inbound(src[j]) = Inbound(src[k])})
    /\ Len(table) = Len(src) + Cardinality({k \in 1..Len(src) : FullRowWhere(src[k])})

\* C27: process_airports is all-or-nothing. Until the commit the table is the table
\* the run found (every round-trip row present, no split row added), and that is how a
\* failed run leaves it; a committed run leaves no round-trip row and exactly one
\* OUTBOUND and one INBOUND row for each, which the delete of the run has not removed.
C27_SplitAllOrNothing ==
    script = "tripjack_airports" =>
      /\ pc # "done" => target = src
      /\ pc = "done" => SplitComplete(target)
      /\ pc = "deleted" => \A k \in 1..Len(out) : CountRows(view, out[k]) >= 1

C27_Witness ==
    /\ script = "tripjack_airports"
    /\ pc = "done"
    /\ \E k \in 1..Len(src) : FullRowWhere(src[k])
    /\ \E k \in 1..Len(src) : ~FullRowWhere(src[k])
    /\ Len(target) = Len(src) + 1

-----------------------------------------------------------------------------
(* The batch merge and the order of the rows.                              *)

\* the orders the rows 1..n can be taken in
RowOrders(n) == {p \in [1..n -> 1..n] : \A i, j \in 1..n : i # j => p[i] # p[j]}

\* df_out of process_batch with the rows of the batch taken in order p
MergedInOrder(p) == BluestarMerge(BluestarOutRows([k \in 1..Len(view) |-> view[p[k]]]))

RecordSet(recs) == {recs[k] : k \in 1..Len(recs)}

\* C28 as stated: the set of full records the batch merge leaves is the same for every
\* order in which the rows of the batch are processed and collected.
C28_MergeOrderIndependent ==
    (Done /\ script = "bluestar") =>
      \A p \in RowOrders(Len(view)) : RecordSet(MergedInOrder(p)) = RecordSet(df_out)

\* what holds: the natural keys the merge leaves are the same for every order
MergedKeysOrderIndependent ==
    (Done /\ script = "bluestar") =>
      \A p \in RowOrders(Len(view)) :
        {KeyOf(r) : r \in RecordSet(MergedInOrder(p))} = {KeyOf(r) : r \in RecordSet(df_out)}

-----------------------------------------------------------------------------
(* The day-count test on the legs of a row, taken in both orders.          *)

\* the timestamps of the legs process_batch groups
LegDates == {row_flights[k].dt : k \in 1..Len(row_flights)}

\* C29 as stated: same_route is symmetric, same_route(d1, d2) = same_route(d2, d1) for
\* the timestamps of any two legs of a row.
C29_SameRouteSymmetric ==
    (Done /\ script = "tbo3_python_copy") =>
      \A d1, d2 \in LegDates : same_route(d1, d2) = same_route(d2, d1)

\* what holds: the test is symmetric for two timestamps at most a day apart
SameRouteSymmetricWithinOneDay ==
    (Done /\ script = "tbo3_python_copy") =>
      \A d1, d2 \in LegDates :
        Abs(d2 - d1) <= OneDay => same_route(d1, d2) = same_route(d2, d1)

-----------------------------------------------------------------------------
(* bluestar main: the loop over the batches.                               *)

\* largest row count of cleaned_source and largest BATCH_SIZE
MaxTotal == 12
MaxBatchSize == 5

\* variant of the offset step: the offset advances by one row
NextOffset_ByOne(offset, size) == offset + 1

\* offset += BATCH_SIZE
NextOffset(offset, size) == offset + size

\* total = COUNT(*) of cleaned_source; offset = 0; batch = 0
InitLoop ==
    /\ script = "bluestar"
    /\ \E t \in 0..MaxTotal, b \in 1..MaxBatchSize :
         loop = [total |-> t, BATCH_SIZE |-> b, offset |-> 0, batch |-> 0, calls |-> <<>>]
    /\ src = <<>>
    /\ view = <<>>
    /\ row_valid = <<>>
    /\ row_flights = <<>>
    /\ row_routes = <<>>
    /\ out = <<>>
    /\ df_out = <<>>
    /\ target = <<>>
    /\ pc = "loop"
    /\ again = NullStr
    /\ target_once = <<>>

\* one pass of the body of while offset < total: process_batch(con, offset) is called
\* and the offset advances
LoopBody ==
    /\ pc = "loop"
    /\ loop.offset < loop.total
    /\ loop' = [loop EXCEPT !.batch = loop.batch + 1,
                            !.calls = Append(loop.calls, loop.offset),
                            !.offset = NextOffset(loop.offset, loop.BATCH_SIZE)]
    /\ UNCHANGED <<script, src, view, row_valid, row_flights, row_routes, out, target, pc, again, target_once, df_out>>

\* the condition offset < total fails: main goes on to the final log lines
LoopExit ==
    /\ pc = "loop"
    /\ ~(loop.offset < loop.total)
    /\ pc' = "done"
    /\ UNCHANGED <<script, src, view, row_valid, row_flights, row_routes, out, target, again, target_once, df_out, loop>>

NextLoop == LoopBody \/ LoopExit

\* main is one sequential thread: it takes its next step whenever it has one
SpecLoop == InitLoop /\ [][NextLoop]_vars /\ WF_vars(NextLoop)

\* the rows LIMIT BATCH_SIZE OFFSET offset addresses: [offset, offset + BATCH_SIZE)
Window(offset) == {i \in 0..(loop.total - 1) : offset <= i /\ i < offset + loop.BATCH_SIZE}

\* ceil(total / BATCH_SIZE)
CeilBatches == (loop.total + loop.BATCH_SIZE - 1) \div loop.BATCH_SIZE

\* the windows of the calls made so far are pairwise disjoint, and there are no more
\* calls than ceil(total / BATCH_SIZE)
WindowsDisjoint ==
    /\ \A j, k \in 1..Len(loop.calls) :
         j # k => /\ loop.calls[j] # loop.calls[k]
                  /\ Window(loop.calls[j]) \cap Window(loop.calls[k]) = {}
    /\ loop.batch = Len(loop.calls)
    /\ loop.batch <= CeilBatches

\* after the loop: ceil(total / BATCH_SIZE) calls were made and every row index of
\* [0, total) lies in the window of exactly one call
LoopCovers ==
    pc = "done" =>
      /\ loop.batch = CeilBatches
      /\ \A i \in 0..(loop.total - 1) :
           Cardinality({k \in 1..Len(loop.calls) : i \in Window(loop.calls[k])}) = 1

\* C30: the batch loop terminates, after exactly ceil(total / BATCH_SIZE) calls of
\* process_batch, and the offset windows of the calls are pairwise disjoint and cover
\* every row index of [0, total) exactly once.
C30_LoopTerminatesAndCovers == [](WindowsDisjoint /\ LoopCovers) /\ <>(pc = "done")

C30_Witness ==
    /\ pc = "done"
    /\ loop.batch >= 3
    /\ loop.total % loop.BATCH_SIZE # 0

====
